---- MODULE Spec2Model ----
(***************************************************************************)
(* URL shortener worker: short-code generation, the storage backends and   *)
(* the request handlers (shorten, redirect, A/B test, geographic routing), *)
(* modelled step by step at their storage I/O boundaries.                  *)
(*                                                                         *)
(* Strings that the code inspects character by character (short codes,    *)
(* host names, hash seeds) are sequences of one-character strings.         *)
(***************************************************************************)
EXTENDS Integers, Sequences, FiniteSets, TLC

(***************************************************************************)
(* Characters                                                              *)
(***************************************************************************)
Digits == <<"0","1","2","3","4","5","6","7","8","9">>

Lower == <<"a","b","c","d","e","f","g","h","i","j","k","l","m",
           "n","o","p","q","r","s","t","u","v","w","x","y","z">>

Upper == <<"A","B","C","D","E","F","G","H","I","J","K","L","M",
           "N","O","P","Q","R","S","T","U","V","W","X","Y","Z">>

\* const BASE62_CHARS = "0123456789abc...xyzABC...XYZ"
BASE62_CHARS == Digits \o Lower \o Upper

Range(s) == {s[i] : i \in 1..Len(s)}

\* String.prototype.indexOf for a single character, 0-based, -1 when absent
IndexOf(s, ch) ==
  IF ch \in Range(s)
  THEN (CHOOSE i \in 1..Len(s) : s[i] = ch /\ \A j \in 1..(i - 1) : s[j] # ch) - 1
  ELSE -1

\* String.prototype.charCodeAt for the characters the model uses (ASCII)
charCodeAt(ch) ==
  IF ch \in Range(Digits) THEN 48 + IndexOf(Digits, ch)
  ELSE IF ch \in Range(Upper) THEN 65 + IndexOf(Upper, ch)
  ELSE IF ch \in Range(Lower) THEN 97 + IndexOf(Lower, ch)
  ELSE CASE ch = "-" -> 45
         [] ch = "." -> 46
         [] ch = "/" -> 47
         [] ch = ":" -> 58
         [] ch = "@" -> 64
         [] ch = "_" -> 95
         [] ch = " " -> 32

\* String.prototype.toLowerCase, one character
LowerChar(ch) ==
  IF ch \in Range(Upper) THEN Lower[IndexOf(Upper, ch) + 1] ELSE ch

toLowerCase(s) == [i \in 1..Len(s) |-> LowerChar(s[i])]

\* Number -> decimal string, as a template literal prints a non-negative integer
RECURSIVE ToDecimal(_)
ToDecimal(n) ==
  IF n < 10 THEN <<Digits[n + 1]>>
  ELSE Append(ToDecimal(n \div 10), Digits[(n % 10) + 1])

(***************************************************************************)
(* 32-bit arithmetic.  A hash value h is the pair [hi, lo] of its 16-bit   *)
(* halves, h = hi * 65536 + lo.                                            *)
(***************************************************************************)
\* bit k of a
Bit(a, k) == (a \div (2 ^ k)) % 2

\* a ^ b for a < 65536 and a character code b < 256
Xor(a, b) ==
  (a \div 256) * 256
  + ((Bit(a, 0) + Bit(b, 0)) % 2) + ((Bit(a, 1) + Bit(b, 1)) % 2) * 2
  + ((Bit(a, 2) + Bit(b, 2)) % 2) * 4 + ((Bit(a, 3) + Bit(b, 3)) % 2) * 8
  + ((Bit(a, 4) + Bit(b, 4)) % 2) * 16 + ((Bit(a, 5) + Bit(b, 5)) % 2) * 32
  + ((Bit(a, 6) + Bit(b, 6)) % 2) * 64 + ((Bit(a, 7) + Bit(b, 7)) % 2) * 128

\* hash ^= byte   (the byte only reaches the low half)
XorByte(h, byte) == [hi |-> h.hi, lo |-> Xor(h.lo, byte)]

\* Math.imul(hash, 16777619), 16777619 = 256 * 65536 + 403, modulo 2^32
ImulPrime(h) ==
  LET low == h.lo * 403
  IN  [hi |-> (h.hi * 403 + h.lo * 256 + (low \div 65536)) % 65536,
       lo |-> low % 65536]

\* FNV-1a: offset basis 2166136261 = 33052 * 65536 + 40389
RECURSIVE FnvFold(_, _, _)
FnvFold(h, input, i) ==
  IF i > Len(input) THEN h
  ELSE CHOOSE hash \in { FnvFold(next, input, i + 1) :
                           next \in {ImulPrime(XorByte(h, charCodeAt(input[i])))} } : TRUE

hashString(input) == FnvFold([hi |-> 33052, lo |-> 40389], input, 1)

\* num === 0, num % 62, Math.floor(num / 62) on the two halves
IsZero(num) == num.hi = 0 /\ num.lo = 0

Mod62(num) == (((num.hi % 62) * 65536) + num.lo) % 62

Div62(num) ==
  LET rest == ((num.hi % 62) * 65536) + num.lo
  IN  [hi |-> (num.hi \div 62) + (rest \div 62) \div 65536,
       lo |-> (rest \div 62) % 65536]

\* encodeBase62 with the symbols appended, least significant first
RECURSIVE EncodeLoopAppending(_, _)
EncodeLoopAppending(num, encoded) ==
  IF IsZero(num) THEN encoded
  ELSE EncodeLoopAppending(Div62(num), Append(encoded, BASE62_CHARS[Mod62(num) + 1]))

encodeBase62Appending(num) ==
  IF IsZero(num) THEN <<BASE62_CHARS[1]>> ELSE EncodeLoopAppending(num, <<>>)

RECURSIVE EncodeLoop(_, _)
EncodeLoop(num, encoded) ==
  IF IsZero(num) THEN encoded
  ELSE EncodeLoop(Div62(num), <<BASE62_CHARS[Mod62(num) + 1]>> \o encoded)

encodeBase62(num) ==
  IF IsZero(num) THEN <<BASE62_CHARS[1]>> ELSE EncodeLoop(num, <<>>)


(***************************************************************************)
(* Generic string helpers                                                  *)
(***************************************************************************)
StartsWith(s, prefix) ==
  /\ Len(s) >= Len(prefix)
  /\ SubSeq(s, 1, Len(prefix)) = prefix

\* String.prototype.includes (case-sensitive substring search)
Includes(s, needle) ==
  \E i \in 1..(Len(s) - Len(needle) + 1) :
     SubSeq(s, i, i + Len(needle) - 1) = needle

(***************************************************************************)
(* Error messages, as the code spells them                                 *)
(***************************************************************************)
\* "URL exceeds maximum length of 2048 characters"
MsgUrlTooLong ==
  <<"U","R","L"," ","e","x","c","e","e","d","s"," ","m","a","x","i","m","u",
    "m"," ","l","e","n","g","t","h"," ","o","f"," ","2","0","4","8"," ","c",
    "h","a","r","a","c","t","e","r","s">>

\* "URL cannot be empty"
MsgUrlEmpty ==
  <<"U","R","L"," ","c","a","n","n","o","t"," ","b","e"," ","e","m","p","t",
    "y">>

\* "Invalid URL format"
MsgUrlFormat ==
  <<"I","n","v","a","l","i","d"," ","U","R","L"," ","f","o","r","m","a",
    "t">>

\* "Only HTTP and HTTPS protocols are allowed"
MsgUrlProtocol ==
  <<"O","n","l","y"," ","H","T","T","P"," ","a","n","d"," ","H","T","T","P",
    "S"," ","p","r","o","t","o","c","o","l","s"," ","a","r","e"," ","a","l",
    "l","o","w","e","d">>

\* "URLs pointing to private or local addresses are not allowed"
MsgUrlPrivate ==
  <<"U","R","L","s"," ","p","o","i","n","t","i","n","g"," ","t","o"," ","p",
    "r","i","v","a","t","e"," ","o","r"," ","l","o","c","a","l"," ","a","d",
    "d","r","e","s","s","e","s"," ","a","r","e"," ","n","o","t"," ","a","l",
    "l","o","w","e","d">>

\* "URLs with embedded credentials are not allowed"
MsgUrlCredentials ==
  <<"U","R","L","s"," ","w","i","t","h"," ","e","m","b","e","d","d","e","d",
    " ","c","r","e","d","e","n","t","i","a","l","s"," ","a","r","e"," ","n",
    "o","t"," ","a","l","l","o","w","e","d">>

\* "Custom code must be between 3 and 20 characters"
MsgCodeLength ==
  <<"C","u","s","t","o","m"," ","c","o","d","e"," ","m","u","s","t"," ","b",
    "e"," ","b","e","t","w","e","e","n"," ","3"," ","a","n","d"," ","2","0",
    " ","c","h","a","r","a","c","t","e","r","s">>

\* "Custom code can only contain letters, numbers, hyphens, and underscores"
MsgCodeChars ==
  <<"C","u","s","t","o","m"," ","c","o","d","e"," ","c","a","n"," ","o","n",
    "l","y"," ","c","o","n","t","a","i","n"," ","l","e","t","t","e","r","s",
    ","," ","n","u","m","b","e","r","s",","," ","h","y","p","h","e","n","s",
    ","," ","a","n","d"," ","u","n","d","e","r","s","c","o","r","e","s">>

\* "Invalid JSON in request body"
MsgInvalidJson ==
  <<"I","n","v","a","l","i","d"," ","J","S","O","N"," ","i","n"," ","r","e",
    "q","u","e","s","t"," ","b","o","d","y">>

\* "Missing required field: url"
MsgMissingUrl ==
  <<"M","i","s","s","i","n","g"," ","r","e","q","u","i","r","e","d"," ","f",
    "i","e","l","d",":"," ","u","r","l">>

\* "This URL has expired"
MsgExpired ==
  <<"T","h","i","s"," ","U","R","L"," ","h","a","s"," ","e","x","p","i","r",
    "e","d">>

\* "KV operation failed"
MsgStorageFailure ==
  <<"K","V"," ","o","p","e","r","a","t","i","o","n"," ","f","a","i","l","e",
    "d">>

\* "Custom code '"
MsgCustomCodePrefix ==
  <<"C","u","s","t","o","m"," ","c","o","d","e"," ","'">>

\* "' is reserved"
MsgReservedSuffix ==
  <<"'"," ","i","s"," ","r","e","s","e","r","v","e","d">>

\* "' is already in use"
MsgInUseSuffix ==
  <<"'"," ","i","s"," ","a","l","r","e","a","d","y"," ","i","n"," ","u","s",
    "e">>

\* "Short code "
MsgShortCodePrefix ==
  <<"S","h","o","r","t"," ","c","o","d","e"," ">>

\* "Short code '"
MsgShortCodeQuotedPrefix ==
  <<"S","h","o","r","t"," ","c","o","d","e"," ","'">>

\* "Short URL '"
MsgShortUrlPrefix ==
  <<"S","h","o","r","t"," ","U","R","L"," ","'">>

\* " not found"
MsgNotFoundSuffix ==
  <<" ","n","o","t"," ","f","o","u","n","d">>

\* "' not found"
MsgQuotedNotFoundSuffix ==
  <<"'"," ","n","o","t"," ","f","o","u","n","d">>

\* "' has expired"
MsgHasExpiredSuffix ==
  <<"'"," ","h","a","s"," ","e","x","p","i","r","e","d">>

\* "Failed to generate unique short code after "
MsgExhaustedPrefix ==
  <<"F","a","i","l","e","d"," ","t","o"," ","g","e","n","e","r","a","t","e",
    " ","u","n","i","q","u","e"," ","s","h","o","r","t"," ","c","o","d","e",
    " ","a","f","t","e","r"," ">>

\* " attempts"
MsgAttemptsSuffix ==
  <<" ","a","t","t","e","m","p","t","s">>

\* "not found"
NeedleNotFound ==
  <<"n","o","t"," ","f","o","u","n","d">>

\* "invalid"
NeedleInvalid ==
  <<"i","n","v","a","l","i","d">>

\* "validation"
NeedleValidation ==
  <<"v","a","l","i","d","a","t","i","o","n">>

\* "already in use"
NeedleInUse ==
  <<"a","l","r","e","a","d","y"," ","i","n"," ","u","s","e">>

(***************************************************************************)
(* middleware/errors.ts                                                    *)
(***************************************************************************)
\* new HTTPError(statusCode, message)
HTTPError(statusCode, message) ==
  [name |-> "HTTPError", statusCode |-> statusCode, message |-> message]

\* new Error(message)
PlainError(message) ==
  [name |-> "Error", statusCode |-> 0, message |-> message]

badRequest(message) == HTTPError(400, message)

notFound(message) == HTTPError(404, message)

gone(message) == HTTPError(410, message)

\* createErrorResponse(error, statusCode)
createErrorResponse(error, statusCode) ==
  [status |-> statusCode, location |-> "", message |-> error.message]

handleError(error) ==
  IF error.name = "HTTPError"
  THEN createErrorResponse(error, error.statusCode)
  ELSE IF Includes(error.message, NeedleNotFound)
  THEN createErrorResponse(error, 404)
  ELSE IF \/ Includes(error.message, NeedleInvalid)
          \/ Includes(error.message, NeedleValidation)
  THEN createErrorResponse(error, 400)
  ELSE createErrorResponse(error, 500)

(***************************************************************************)
(* shortener/validator.ts                                                  *)
(***************************************************************************)
BLOCKED_HOSTS ==
  { <<"l","o","c","a","l","h","o","s","t">>,
    <<"1","2","7",".","0",".","0",".","1">>,
    <<"0",".","0",".","0",".","0">>,
    <<"[",":",":","]">>,
    <<"[",":",":","1","]">> }

MAX_URL_LENGTH == 2048

\* /^172\.(1[6-9]|2[0-9]|3[0-1])\./
Matches172(h) ==
  /\ StartsWith(h, <<"1","7","2",".">>)
  /\ Len(h) >= 7
  /\ \/ h[5] = "1" /\ h[6] \in {"6","7","8","9"}
     \/ h[5] = "2" /\ h[6] \in Range(Digits)
     \/ h[5] = "3" /\ h[6] \in {"0","1"}
  /\ h[7] = "."

\* PRIVATE_IP_PATTERNS.some(pattern => pattern.test(hostname))
MatchesPrivatePattern(h) ==
  \/ StartsWith(h, <<"1","0",".">>)
  \/ Matches172(h)
  \/ StartsWith(h, <<"1","9","2",".","1","6","8",".">>)
  \/ StartsWith(h, <<"1","6","9",".","2","5","4",".">>)
  \/ StartsWith(toLowerCase(h), <<"f","c","0","0",":">>)
  \/ StartsWith(toLowerCase(h), <<"f","e","8","0",":">>)

isPrivateOrLocalIP(hostname) ==
  \/ toLowerCase(hostname) \in BLOCKED_HOSTS
  \/ MatchesPrivatePattern(hostname)

(***************************************************************************)
(* The platform's URL parser, on the request URLs the model submits:       *)
(* length of the raw text, whether new URL(raw) succeeds, and the fields   *)
(* of the parsed URL (href is the normalised serialisation).               *)
(***************************************************************************)
Parsed(protocol, hostname, credentials, href) ==
  [ok |-> TRUE, protocol |-> protocol, hostname |-> hostname,
   credentials |-> credentials, href |-> href]

Unparsable ==
  [ok |-> FALSE, protocol |-> "", hostname |-> <<>>, credentials |-> FALSE,
   href |-> ""]

ValidUrls == {"https://a.co", "HTTP://B.io/x"}

InvalidUrls ==
  {"not a url", "ftp://a.co/", "http://localhost:3000", "http://10.0.0.1/",
   "https://u:p@a.co/", "https://a.co/<2036 more characters>"}

UrlLength(raw) ==
  CASE raw = "https://a.co" -> 12
    [] raw = "HTTP://B.io/x" -> 13
    [] raw = "not a url" -> 9
    [] raw = "ftp://a.co/" -> 11
    [] raw = "http://localhost:3000" -> 21
    [] raw = "http://10.0.0.1/" -> 16
    [] raw = "https://u:p@a.co/" -> 17
    [] raw = "https://a.co/<2036 more characters>" -> 2049

ParseURL(raw) ==
  CASE raw = "https://a.co" ->
         Parsed("https:", <<"a",".","c","o">>, FALSE, "https://a.co/")
    [] raw = "HTTP://B.io/x" ->
         Parsed("http:", <<"b",".","i","o">>, FALSE, "http://b.io/x")
    [] raw = "not a url" -> Unparsable
    [] raw = "ftp://a.co/" ->
         Parsed("ftp:", <<"a",".","c","o">>, FALSE, "ftp://a.co/")
    [] raw = "http://localhost:3000" ->
         Parsed("http:", <<"l","o","c","a","l","h","o","s","t">>, FALSE,
                "http://localhost:3000/")
    [] raw = "http://10.0.0.1/" ->
         Parsed("http:", <<"1","0",".","0",".","0",".","1">>, FALSE,
                "http://10.0.0.1/")
    [] raw = "https://u:p@a.co/" ->
         Parsed("https:", <<"a",".","c","o">>, TRUE, "https://u:p@a.co/")
    [] raw = "https://a.co/<2036 more characters>" ->
         Parsed("https:", <<"a",".","c","o">>, FALSE,
                "https://a.co/<2036 more characters>")

\* The characters of the sanitised URLs (they seed the hash)
UrlChars(href) ==
  CASE href = "https://a.co/" ->
         <<"h","t","t","p","s",":","/","/","a",".","c","o","/">>
    [] href = "http://b.io/x" ->
         <<"h","t","t","p",":","/","/","b",".","i","o","/","x">>

\* validateUrl: [valid, error, sanitizedUrl]
validateUrl(url) ==
  LET parsedUrl == ParseURL(url)
      Invalid(msg) == [valid |-> FALSE, error |-> msg, sanitizedUrl |-> ""]
  IN  IF UrlLength(url) > MAX_URL_LENGTH THEN Invalid(MsgUrlTooLong)
      ELSE IF UrlLength(url) = 0 THEN Invalid(MsgUrlEmpty)
      ELSE IF ~parsedUrl.ok THEN Invalid(MsgUrlFormat)
      ELSE IF parsedUrl.protocol # "http:" /\ parsedUrl.protocol # "https:"
      THEN Invalid(MsgUrlProtocol)
      ELSE IF isPrivateOrLocalIP(parsedUrl.hostname) THEN Invalid(MsgUrlPrivate)
      ELSE IF parsedUrl.credentials THEN Invalid(MsgUrlCredentials)
      ELSE [valid |-> TRUE, error |-> <<>>, sanitizedUrl |-> parsedUrl.href]

\* assertValidUrl: the error it throws, or "ok"
assertValidUrl(url) ==
  LET result == validateUrl(url)
  IN  IF ~result.valid
      THEN [ok |-> FALSE, error |-> PlainError(result.error), value |-> ""]
      ELSE [ok |-> TRUE, error |-> PlainError(<<>>), value |-> result.sanitizedUrl]

(***************************************************************************)
(* shortener/algorithm.ts                                                  *)
(***************************************************************************)
\* new Error(`Invalid base62 character: ${char}`)
MsgInvalidBase62(char) == "Invalid base62 character: " \o char

\* decoded = decoded * 62 + value, on the two halves
Times62Plus(decoded, value) ==
  LET low == (decoded.lo * 62) + value
  IN  [hi |-> (decoded.hi * 62) + (low \div 65536), lo |-> low % 65536]

RECURSIVE DecodeLoop(_, _, _)
DecodeLoop(str, i, decoded) ==
  IF i > Len(str) THEN decoded
  ELSE LET value == IndexOf(BASE62_CHARS, str[i])
       IN  IF value = -1 THEN PlainError(MsgInvalidBase62(str[i]))
           ELSE DecodeLoop(str, i + 1, Times62Plus(decoded, value))

decodeBase62(str) == DecodeLoop(str, 1, [hi |-> 0, lo |-> 0])

RESERVED ==
  { <<"a","p","i">>, <<"h","e","a","l","t","h">>, <<"a","d","m","i","n">>,
    <<"s","t","a","t","s">>, <<"s","h","o","r","t","e","n">>,
    <<"n","e","w">>, <<"c","r","e","a","t","e">> }

\* /^[a-zA-Z0-9_-]+$/
ValidPattern(code) ==
  /\ Len(code) >= 1
  /\ \A i \in 1..Len(code) : code[i] \in Range(BASE62_CHARS) \cup {"_", "-"}

\* a variant of validateCustomCode that compares with the reserved words
\* without lower-casing
validateCustomCodeCased(customCode) ==
  IF Len(customCode) < 3 \/ Len(customCode) > 20
  THEN [ok |-> FALSE, error |-> PlainError(MsgCodeLength)]
  ELSE IF ~ValidPattern(customCode)
  THEN [ok |-> FALSE, error |-> PlainError(MsgCodeChars)]
  ELSE IF customCode \in RESERVED
  THEN [ok |-> FALSE,
        error |-> PlainError(MsgCustomCodePrefix \o customCode \o MsgReservedSuffix)]
  ELSE [ok |-> TRUE, error |-> PlainError(<<>>)]

\* validateCustomCode: the error it throws, or ok
validateCustomCode(customCode) ==
  IF Len(customCode) < 3 \/ Len(customCode) > 20
  THEN [ok |-> FALSE, error |-> PlainError(MsgCodeLength)]
  ELSE IF ~ValidPattern(customCode)
  THEN [ok |-> FALSE, error |-> PlainError(MsgCodeChars)]
  ELSE IF toLowerCase(customCode) \in RESERVED
  THEN [ok |-> FALSE,
        error |-> PlainError(MsgCustomCodePrefix \o customCode \o MsgReservedSuffix)]
  ELSE [ok |-> TRUE, error |-> PlainError(<<>>)]

\* The indices Math.floor(Math.random() * 62) is drawn from in the model
RandomIndices == {0, 61}

\* All strings code + pad, pad of n random alphabet symbols
RECURSIVE Padded(_, _)
Padded(code, n) ==
  IF n = 0 THEN {code}
  ELSE UNION { Padded(Append(code, BASE62_CHARS[r + 1]), n - 1) : r \in RandomIndices }

\* a variant of generateShortCode that never truncates
generateShortCodeUncut(url, counter, codeLength, timestamp) ==
  LET seed == UrlChars(url) \o <<":">> \o ToDecimal(timestamp) \o <<":">>
                \o ToDecimal(counter)
      code == encodeBase62(hashString(seed))
  IN  Padded(code, IF Len(code) < codeLength THEN codeLength - Len(code) ELSE 0)

\* generateShortCode(url, counter, codeLength) when Date.now() = timestamp:
\* the set of codes it can return (one per outcome of the random padding)
generateShortCode(url, counter, codeLength, timestamp) ==
  LET seed == UrlChars(url) \o <<":">> \o ToDecimal(timestamp) \o <<":">>
                \o ToDecimal(counter)
      code == encodeBase62(hashString(seed))
  IN  IF Len(code) < codeLength THEN Padded(code, codeLength - Len(code))
      ELSE IF Len(code) > codeLength THEN {SubSeq(code, 1, codeLength)}
      ELSE {code}


(***************************************************************************)
(* Model bounds                                                            *)
(***************************************************************************)
\* requests accepted in one run
MaxReq == 3

\* clock ticks (of one second) in one run
MaxTicks == 2

\* storage operations that fail in one run
MaxFaults == 1

(***************************************************************************)
(* Configuration (ShortenerConfig)                                         *)
(***************************************************************************)
CodeLength == 6

MaxRetries == 2

(***************************************************************************)
(* Optional values: <<>> is undefined / null, <<v>> is the value v         *)
(***************************************************************************)
None == <<>>

Some(v) == <<v>>

(***************************************************************************)
(* State                                                                   *)
(***************************************************************************)
VARIABLES
  now,      \* Date.now(), milliseconds
  backend,  \* the URLStorage implementation in use: "memory", "kv" or "raw"
  slots,    \* the request slots in use (one: requests do not overlap)
  budget,   \* the number of requests the run accepts
  api,      \* the API keys: their records in KV and the calls that use them
  rl,       \* the rate limiter: its counters in KV and the calls of rateLimit
  bulk,     \* per slot: the bulk request being handled, its results so far
  calc,     \* the last application of a pure function: its input and result
  store,    \* the backing map / KV namespace: code -> [data, expiration]
  proc,     \* per slot: the request being handled and, when done, its response
  task,     \* per slot: the detached accounting promise of its request
  nreq,     \* requests accepted so far
  nfault,   \* storage failures so far
  created   \* history: per code, the last record a POST /shorten stored

vars == <<now, backend, slots, budget, api, rl, bulk, calc, store, proc, task, nreq, nfault, created>>

Procs == {1, 2}

\* MemoryStorage and KVStorage
Shipped == {"memory", "kv"}

Backends == Shipped \cup {"raw"}

(***************************************************************************)
(* storage/memory.ts, storage/kv.ts                                        *)
(***************************************************************************)
\* isExpired with its comparison turned around
isExpiredInverted(data, t) ==
  IF data.expiresAt = 0 THEN FALSE ELSE t < data.expiresAt

\* isExpired(data) at time t
isExpired(data, t) ==
  IF data.expiresAt = 0 THEN FALSE ELSE t > data.expiresAt

Remove(s, c) == [k \in DOMAIN s \ {c} |-> s[k]]

Put(s, c, entry) == [k \in DOMAIN s \cup {c} |-> IF k = c THEN entry ELSE s[k]]

\* KVStorage.set: the expirationTtl (seconds) handed to kv.put, 0 = undefined
ExpirationTtl(data, t) ==
  IF data.expiresAt = 0 THEN 0
  ELSE LET ttlSeconds == (data.expiresAt - t) \div 1000
       IN  IF ttlSeconds > 0 THEN ttlSeconds ELSE 0

\* KVStorage.set: the instant at which KV drops the key, 0 = never
KVExpiration(data, t) ==
  IF ExpirationTtl(data, t) = 0 THEN 0 ELSE t + ExpirationTtl(data, t) * 1000

MemorySet(s, c, data, t) == Put(s, c, [data |-> data, expiration |-> 0])

KVSet(s, c, data, t) ==
  Put(s, c, [data |-> data, expiration |-> KVExpiration(data, t)])

\* get of a backend that leaves the expiry check to its caller
RawGet(s, c, t) ==
  IF c \notin DOMAIN s THEN [value |-> None, store |-> s]
  ELSE [value |-> Some(s[c].data), store |-> s]

\* a get that hides an expired record and leaves it stored
CheckedGetKeeping(s, c, t) ==
  IF c \notin DOMAIN s THEN [value |-> None, store |-> s]
  ELSE IF isExpired(s[c].data, t) THEN [value |-> None, store |-> s]
  ELSE [value |-> Some(s[c].data), store |-> s]

\* get of MemoryStorage and of KVStorage: [value, store]
CheckedGet(s, c, t) ==
  IF c \notin DOMAIN s THEN [value |-> None, store |-> s]
  ELSE IF isExpired(s[c].data, t) THEN [value |-> None, store |-> Remove(s, c)]
  ELSE [value |-> Some(s[c].data), store |-> s]

StorageGet(b, s, c, t) ==
  IF b = "raw" THEN RawGet(s, c, t) ELSE CheckedGet(s, c, t)

\* a set that keeps the record already stored under the key
StorageSetOnce(b, s, c, data, t) ==
  IF c \in DOMAIN s THEN s
  ELSE IF b = "kv" THEN KVSet(s, c, data, t) ELSE MemorySet(s, c, data, t)

StorageSet(b, s, c, data, t) ==
  IF b = "kv" THEN KVSet(s, c, data, t) ELSE MemorySet(s, c, data, t)

\* exists that never finds the key
StorageExistsNever(s, c) == FALSE

StorageExists(s, c) == c \in DOMAIN s

StorageDelete(s, c) == Remove(s, c)

\* Workers KV drops a key once its expiration has been reached
KVPurge(s, t) ==
  LET live == {c \in DOMAIN s : s[c].expiration = 0 \/ t < s[c].expiration}
  IN  [c \in live |-> s[c]]


(***************************************************************************)
(* Records                                                                 *)
(***************************************************************************)
\* shorten.ts: the URLData that handleShorten builds (lines 92-99)
NewURLData(originalUrl, shortCode, createdAt, expiresAt, isCustom) ==
  [originalUrl |-> originalUrl, shortCode |-> shortCode, createdAt |-> createdAt,
   expiresAt |-> expiresAt, visitCount |-> 0, customCode |-> isCustom,
   metadata |-> None, abTest |-> None, geoRouting |-> None]

\* urlData.metadata = {}
EmptyMetadata == [geoRouting |-> None, abTest |-> None]

NoResponse == [status |-> 0, location |-> "", message |-> <<>>]

Response(status, location) ==
  [status |-> status, location |-> location, message |-> <<>>]

IdleProc ==
  [pc |-> "idle", kind |-> "", code |-> <<>>, url |-> "", custom |-> FALSE,
   attempt |-> 0, data |-> None, inc |-> None, resp |-> NoResponse,
   \* history of the request, for the properties
   at |-> 0, checkedAt |-> 0, probes |-> <<>>, invalid |-> FALSE,
   existed |-> FALSE, accountingFailed |-> FALSE, first |-> FALSE,
   expiresIn |-> 0]

IdleTask ==
  [pc |-> "idle", kind |-> "", code |-> <<>>, data |-> None, sel |-> None,
   \* history: the position of the selected variant or rule (0: none), and
   \* the record the promise has read
   idx |-> 0, before |-> None]

CanStart(p) ==
  /\ p \in slots
  /\ proc[p].pc \in {"idle", "done"}
  /\ task[p].pc = "idle"
  /\ nreq < budget

\* a request arrives in slot p
Arrive(kind, code) ==
  [IdleProc EXCEPT !.kind = kind, !.code = code, !.at = now,
                   !.first = (code \in DOMAIN created /\ ~created[code].touched)]

\* any request naming code c ends the "untouched since creation" period of c
Touch(c) ==
  [k \in DOMAIN created |->
     IF k = c THEN [created[k] EXCEPT !.touched = TRUE] ELSE created[k]]

Finish(q, resp) == [q EXCEPT !.pc = "done", !.resp = resp]

\* history: one more 302 has been answered for code c (hits: since the
\* record was last stored by POST /shorten; served: in all)
Hit(c) ==
  [k \in DOMAIN created |->
     IF k = c THEN [created[k] EXCEPT !.hits = @ + 1, !.served = @ + 1]
     ELSE created[k]]

\* MemoryStorage.get returns { ...data }: the copy shares its nested objects
\* with the stored record, so what a caller writes into abTest or geoRouting
\* of its copy is written into the stored record as well
SharedNested(b, st, c, urlData) ==
  IF b = "memory" /\ c \in DOMAIN st
  THEN [st EXCEPT ![c].data.abTest = IF @ = None THEN @ ELSE urlData.abTest,
                  ![c].data.geoRouting = IF @ = None THEN @ ELSE urlData.geoRouting]
  ELSE st

(***************************************************************************)
(* handlers/shorten.ts                                                     *)
(***************************************************************************)
CodeAbc == <<"a","b","c">>

CustomCodes ==
  { CodeAbc, <<"a","b">>, <<"a",".","b">>, <<"A","P","I">> }

\* a valid request with a custom code
CustomBody == [json |-> TRUE, url |-> "https://a.co", customCode |-> CodeAbc]

\* valid requests: one for a generated code, one with a custom code
ValidBodies ==
  { [json |-> TRUE, url |-> "https://a.co", customCode |-> <<>>],
    [json |-> TRUE, url |-> "HTTP://B.io/x", customCode |-> CodeAbc] }

\* invalid JSON, a missing url, invalid urls, invalid custom codes
InvalidBodies ==
  {[json |-> FALSE, url |-> "", customCode |-> <<>>]}
  \cup {[json |-> TRUE, url |-> "", customCode |-> <<>>]}
  \cup {[json |-> TRUE, url |-> u, customCode |-> <<>>] : u \in InvalidUrls}
  \cup {[json |-> TRUE, url |-> "https://a.co", customCode |-> c] :
          c \in CustomCodes \ {CodeAbc}}

\* 20 symbols, with a digit, a capital, a hyphen and an underscore
Code20 ==
  <<"A","b","0","-","_","a","a","a","a","a","a","a","a","a","a","a","a","a","a","a">>

CodeDashboard == <<"d","a","s","h","b","o","a","r","d">>

\* custom codes around the limits of validateCustomCode: the reserved
\* words, one in another case, 21 symbols, a space; then codes it accepts
BoundaryCodes ==
  RESERVED \cup { <<"H","e","a","l","t","h">>, Append(Code20, "a"), <<"a"," ","b">> }
           \cup { Code20, CodeDashboard }

\* requests with a valid url and a custom code
CustomBodies ==
  {[json |-> TRUE, url |-> "https://a.co", customCode |-> c] :
     c \in CustomCodes \cup BoundaryCodes}

ShortenBodies == ValidBodies \cup InvalidBodies

\* body.expiresIn when present (0 stands for an absent field)
ExpiresIns == {-1, 1}

\* lines 83-89: expiresAt, 0 = undefined
ExpiresAt(createdAt, expiresIn) ==
  IF expiresIn # 0 /\ expiresIn > 0 THEN createdAt + expiresIn * 1000 ELSE 0

MsgInUse(code) == MsgCustomCodePrefix \o code \o MsgInUseSuffix

MsgExhausted == MsgExhaustedPrefix \o ToDecimal(MaxRetries) \o MsgAttemptsSuffix

\* the loop with the result of the probe ignored
ProbeOutcomeBlind(attempt, exists) == "return"

\* the loop with one iteration too many (attempt <= maxRetries)
ProbeOutcomeExtra(attempt, exists) ==
  IF ~exists THEN "return"
  ELSE IF attempt + 1 <= MaxRetries THEN "retry"
  ELSE "throw"

\* generateUniqueShortCode, one iteration: what follows the exists() probe
ProbeOutcome(attempt, exists) ==
  IF ~exists THEN "return"
  ELSE IF attempt + 1 < MaxRetries THEN "retry"
  ELSE "throw"

\* handleShorten up to its first storage call (lines 46-69)
ShortenStart(p, body) ==
  /\ CanStart(p)
  /\ nreq' = nreq + 1
  /\ LET q == Arrive("shorten", body.customCode)
         v == assertValidUrl(body.url)
         cv == validateCustomCode(body.customCode)
     IN  proc' = [proc EXCEPT ![p] =
           IF ~body.json THEN Finish(q, handleError(badRequest(MsgInvalidJson)))
           ELSE IF body.url = "" THEN Finish(q, handleError(badRequest(MsgMissingUrl)))
           ELSE IF ~v.ok THEN Finish([q EXCEPT !.invalid = TRUE], handleError(v.error))
           ELSE IF body.customCode # <<>>
           THEN IF ~cv.ok
                THEN Finish([q EXCEPT !.invalid = TRUE, !.url = v.value],
                            handleError(cv.error))
                ELSE [q EXCEPT !.pc = "sh_exists", !.url = v.value]
           ELSE [q EXCEPT !.pc = "sh_probe", !.url = v.value]]
  /\ created' = IF body.customCode # <<>> THEN Touch(body.customCode) ELSE created
  /\ UNCHANGED <<now, backend, slots, budget, api, rl, bulk, calc, store, task, nfault>>

\* lines 70-77: the custom code's existence check
ShortenExists(p) ==
  /\ proc[p].pc = "sh_exists"
  /\ LET q == proc[p]
         exists == StorageExists(store, q.code)
     IN  proc' = [proc EXCEPT ![p] =
           IF exists
           THEN Finish([q EXCEPT !.existed = TRUE],
                       handleError(badRequest(MsgInUse(q.code))))
           ELSE [q EXCEPT !.pc = "sh_set", !.custom = TRUE]]
  /\ UNCHANGED <<now, backend, slots, budget, api, rl, bulk, calc, store, task, nreq, nfault, created>>

\* generateUniqueShortCode: one loop iteration (algorithm.ts lines 131-147)
ShortenProbe(p) ==
  /\ proc[p].pc = "sh_probe"
  /\ \E shortCode \in generateShortCode(proc[p].url, proc[p].attempt, CodeLength, now) :
       LET q == proc[p]
           exists == StorageExists(store, shortCode)
           outcome == ProbeOutcome(q.attempt, exists)
           r == [q EXCEPT !.probes = Append(@, [code |-> shortCode, exists |-> exists])]
       IN  proc' = [proc EXCEPT ![p] =
             CASE outcome = "return" -> [r EXCEPT !.pc = "sh_set", !.code = shortCode]
               [] outcome = "retry" -> [r EXCEPT !.attempt = @ + 1]
               [] outcome = "throw" -> Finish(r, handleError(PlainError(MsgExhausted)))]
  /\ UNCHANGED <<now, backend, slots, budget, api, rl, bulk, calc, store, task, nreq, nfault, created>>

\* the same with the existence check repeated at the time of the write: a
\* code that has been taken meanwhile is refused
ShortenSetIfAbsent(p, expiresIn) ==
  /\ proc[p].pc = "sh_set"
  /\ LET q == proc[p]
         createdAt == now
         expiresAt == ExpiresAt(createdAt, expiresIn)
         urlData == NewURLData(q.url, q.code, createdAt, expiresAt, q.custom)
         exists == StorageExists(store, q.code)
     IN  /\ store' = IF exists THEN store
                     ELSE StorageSet(backend, store, q.code, urlData, now)
         /\ proc' = [proc EXCEPT ![p] =
              IF exists
              THEN Finish([q EXCEPT !.existed = TRUE],
                          handleError(badRequest(MsgInUse(q.code))))
              ELSE Finish([q EXCEPT !.data = Some(urlData), !.expiresIn = expiresIn],
                          Response(201, ""))]
         /\ created' = IF exists THEN created
              ELSE [k \in DOMAIN created \cup {q.code} |->
                     IF k = q.code
                     THEN [url |-> q.url, expiresIn |-> expiresIn, expiresAt |-> expiresAt,
                           createdAt |-> createdAt, touched |-> FALSE, hits |-> 0,
                    served |-> IF q.code \in DOMAIN created
                               THEN created[q.code].served ELSE 0]
                     ELSE created[k]]
  /\ UNCHANGED <<now, backend, slots, budget, api, rl, bulk, calc, task, nreq, nfault>>

\* lines 83-121: build the record, store it, answer 201
ShortenSet(p, expiresIn) ==
  /\ proc[p].pc = "sh_set"
  /\ LET q == proc[p]
         createdAt == now
         expiresAt == ExpiresAt(createdAt, expiresIn)
         urlData == NewURLData(q.url, q.code, createdAt, expiresAt, q.custom)
     IN  /\ store' = StorageSet(backend, store, q.code, urlData, now)
         /\ proc' = [proc EXCEPT ![p] =
              Finish([q EXCEPT !.data = Some(urlData), !.expiresIn = expiresIn],
                     Response(201, ""))]
         /\ created' = [k \in DOMAIN created \cup {q.code} |->
              IF k = q.code
              THEN [url |-> q.url, expiresIn |-> expiresIn, expiresAt |-> expiresAt,
                    createdAt |-> createdAt, touched |-> FALSE, hits |-> 0,
                    served |-> IF q.code \in DOMAIN created
                               THEN created[q.code].served ELSE 0]
              ELSE created[k]]
  /\ UNCHANGED <<now, backend, slots, budget, api, rl, bulk, calc, task, nreq, nfault>>

(***************************************************************************)
(* index.ts: GET /:shortCode, and handlers/redirect.ts                     *)
(***************************************************************************)
\* (urlData.metadata as any).geoRouting?.enabled
MetadataGeoEnabled(urlData) ==
  /\ urlData.metadata # None
  /\ urlData.metadata[1].geoRouting # None
  /\ urlData.metadata[1].geoRouting[1].enabled

\* (urlData.metadata as any).abTest?.enabled
MetadataABEnabled(urlData) ==
  /\ urlData.metadata # None
  /\ urlData.metadata[1].abTest # None
  /\ urlData.metadata[1].abTest[1].enabled

\* index.ts lines 263-274: the handler the route delegates to
RouteTarget(value) ==
  IF value # None /\ MetadataGeoEnabled(value[1]) THEN "geo_get"
  ELSE IF value # None /\ MetadataABEnabled(value[1]) THEN "ab_get"
  ELSE "rd_get"

\* the codes a client asks for
RequestCodes == DOMAIN store \cup DOMAIN created \cup {CodeAbc}

MsgShortUrlNotFound(code) == MsgShortUrlPrefix \o code \o MsgQuotedNotFoundSuffix

MsgShortCodeNotFound(code) == MsgShortCodeQuotedPrefix \o code \o MsgQuotedNotFoundSuffix

MsgHasExpired(code) == MsgShortUrlPrefix \o code \o MsgHasExpiredSuffix

\* incrementStats: throw new Error(`Short code ${shortCode} not found`)
MsgIncNotFound(code) == MsgShortCodePrefix \o code \o MsgNotFoundSuffix

\* index.ts lines 88 and 93: the one-segment paths of GET routes that are
\* matched before GET /:shortCode
LiteralRoutes == { <<"h","e","a","l","t","h">>, <<"d","a","s","h","b","o","a","r","d">> }

\* GET /:shortCode arrives: the route's own storage.get and its dispatch;
\* a path taken by an earlier route is answered 200 by that route
Route(p, code) ==
  /\ CanStart(p)
  /\ nreq' = nreq + 1
  /\ LET r == StorageGet(backend, store, code, now)
     IN  IF code \in LiteralRoutes
         THEN /\ store' = store
              /\ proc' = [proc EXCEPT ![p] = Finish(Arrive("get", code), Response(200, ""))]
         ELSE /\ store' = r.store
              /\ proc' = [proc EXCEPT ![p] =
                   [Arrive("get", code) EXCEPT !.pc = RouteTarget(r.value)]]
  /\ created' = Touch(code)
  /\ UNCHANGED <<now, backend, slots, budget, api, rl, bulk, calc, task, nfault>>

\* handleRedirect with the detached incrementStats started before the
\* null check
RedirectGetCounting(p) ==
  /\ proc[p].pc = "rd_get"
  /\ LET q == proc[p]
         r == StorageGet(backend, store, q.code, now)
     IN  /\ store' = r.store
         /\ proc' = [proc EXCEPT ![p] =
              IF r.value = None
              THEN Finish(q, handleError(notFound(MsgShortUrlNotFound(q.code))))
              ELSE [q EXCEPT !.pc = "rd_check", !.data = r.value]]
         /\ task' = [task EXCEPT ![p] =
              [IdleTask EXCEPT !.pc = "get", !.kind = "inc", !.code = q.code]]
  /\ UNCHANGED <<now, backend, slots, budget, api, rl, bulk, calc, nreq, nfault, created>>

\* handleRedirect lines 17-21
RedirectGet(p) ==
  /\ proc[p].pc = "rd_get"
  /\ LET q == proc[p]
         r == StorageGet(backend, store, q.code, now)
     IN  /\ store' = r.store
         /\ proc' = [proc EXCEPT ![p] =
              IF r.value = None
              THEN Finish(q, handleError(notFound(MsgShortUrlNotFound(q.code))))
              ELSE [q EXCEPT !.pc = "rd_check", !.data = r.value]]
  /\ UNCHANGED <<now, backend, slots, budget, api, rl, bulk, calc, task, nreq, nfault, created>>

\* handleRedirect line 24: urlData.expiresAt && Date.now() > urlData.expiresAt
RedirectExpired(urlData, t) == urlData.expiresAt # 0 /\ t > urlData.expiresAt

\* handleRedirect lines 23-43: the expiry check, then the detached
\* incrementStats and the 302
RedirectCheck(p) ==
  /\ proc[p].pc = "rd_check"
  /\ LET q == [proc[p] EXCEPT !.checkedAt = now]
         urlData == q.data[1]
     IN  IF RedirectExpired(urlData, now)
         THEN /\ proc' = [proc EXCEPT ![p] = [q EXCEPT !.pc = "rd_delete"]]
              /\ task' = task
              /\ created' = created
         ELSE /\ proc' = [proc EXCEPT ![p] =
                   Finish(q, Response(302, urlData.originalUrl))]
              /\ task' = [task EXCEPT ![p] =
                   [IdleTask EXCEPT !.pc = "get", !.kind = "inc", !.code = q.code]]
              /\ created' = Hit(q.code)
  /\ UNCHANGED <<now, backend, slots, budget, api, rl, bulk, calc, store, nreq, nfault>>

\* handleRedirect lines 26-27: await storage.delete, then Gone
RedirectDelete(p) ==
  /\ proc[p].pc = "rd_delete"
  /\ store' = StorageDelete(store, proc[p].code)
  /\ proc' = [proc EXCEPT ![p] =
       Finish(@, handleError(gone(MsgHasExpired(proc[p].code))))]
  /\ UNCHANGED <<now, backend, slots, budget, api, rl, bulk, calc, task, nreq, nfault, created>>

\* the same, when storage.delete throws
RedirectDeleteFails(p) ==
  /\ proc[p].pc = "rd_delete"
  /\ nfault < MaxFaults
  /\ nfault' = nfault + 1
  /\ proc' = [proc EXCEPT ![p] =
       Finish(@, handleError(PlainError(MsgStorageFailure)))]
  /\ UNCHANGED <<now, backend, slots, budget, api, rl, bulk, calc, store, task, nreq, created>>


(***************************************************************************)
(* handlers/abtest.ts                                                      *)
(***************************************************************************)
Variant(url, weight) == [url |-> url, weight |-> weight, visitCount |-> 0]

TwoVariants == <<Variant("https://v1.io/", 50), Variant("https://v2.io/", 50)>>

OneVariant == <<Variant("https://v1.io/", 100)>>

HeavyVariants == <<Variant("https://v1.io/", 60), Variant("https://v2.io/", 60)>>

\* an A/A test: both variants lead to the same URL
TwinVariants == <<Variant("https://v1.io/", 50), Variant("https://v1.io/", 50)>>

\* bodies of POST /api/abtest/:shortCode
ABBodies ==
  { [json |-> FALSE, enabled |-> FALSE, variants |-> None],
    [json |-> TRUE, enabled |-> TRUE, variants |-> Some(TwoVariants)],
    [json |-> TRUE, enabled |-> TRUE, variants |-> Some(OneVariant)],
    [json |-> TRUE, enabled |-> TRUE, variants |-> Some(HeavyVariants)],
    [json |-> TRUE, enabled |-> TRUE, variants |-> Some(TwinVariants)],
    [json |-> TRUE, enabled |-> TRUE, variants |-> None],
    [json |-> TRUE, enabled |-> FALSE, variants |-> None] }

RECURSIVE SumWeights(_, _)
SumWeights(variants, n) ==
  IF n = 0 THEN 0 ELSE SumWeights(variants, n - 1) + variants[n].weight

TotalWeight(variants) == SumWeights(variants, Len(variants))

\* a variant of the loop of selectVariant that compares with <
SelectedIndexStrict(variants, random) ==
  LET hits == {i \in 1..Len(variants) : random < SumWeights(variants, i)}
  IN  IF hits # {}
      THEN CHOOSE i \in hits : \A j \in hits : i <= j
      ELSE 1

\* selectVariant lines 46-55, given the value of Math.random() * totalWeight:
\* the position in the list of the object it returns
SelectedIndex(variants, random) ==
  LET hits == {i \in 1..Len(variants) : random <= SumWeights(variants, i)}
  IN  IF hits # {}
      THEN CHOOSE i \in hits : \A j \in hits : i <= j
      ELSE 1

selectVariant(variants, random) == variants[SelectedIndex(variants, random)]

\* the values of Math.random() * totalWeight the model draws
Draws(totalWeight) == IF totalWeight = 0 THEN {0} ELSE {0, totalWeight - 1}

\* handleConfigureABTest lines 82-105: "ok" or the 400 it throws
\* (the 400 answers of the configuration endpoints are not told apart
\* by their message: it is cut to its first word)
MsgVariants == <<"V","a","r","i","a","n","t">>

ValidateVariants(variants) ==
  IF Len(variants) < 2 THEN "At least 2 variants are required for A/B testing"
  ELSE IF Len(variants) > 10 THEN "Maximum 10 variants allowed"
  ELSE IF \E i \in 1..Len(variants) : variants[i].url = ""
  THEN "Each variant must have a URL"
  ELSE IF \E i \in 1..Len(variants) : variants[i].weight < 0 \/ variants[i].weight > 100
  THEN "Variant weight must be a number between 0 and 100"
  ELSE IF TotalWeight(variants) # 100 THEN "Total weight must equal 100"
  ELSE "ok"

\* lines 120-124: the abTest written into the record
ConfiguredABTest(urlData, body) ==
  [enabled |-> body.enabled,
   variants |-> IF body.variants # None THEN body.variants[1]
                ELSE IF urlData.abTest # None THEN urlData.abTest[1].variants
                ELSE <<>>,
   totalVisits |-> IF urlData.abTest # None THEN urlData.abTest[1].totalVisits ELSE 0]

\* POST /api/abtest/:shortCode arrives: lines 67-124
ABConfigure(p, code, body) ==
  /\ CanStart(p)
  /\ nreq' = nreq + 1
  /\ LET r == StorageGet(backend, store, code, now)
         q == Arrive("abconfig", code)
     IN  /\ store' = r.store
         /\ proc' = [proc EXCEPT ![p] =
              IF r.value = None
              THEN Finish(q, handleError(notFound(MsgShortCodeNotFound(code))))
              ELSE IF ~body.json
              THEN Finish(q, handleError(badRequest(MsgInvalidJson)))
              ELSE IF body.variants # None /\ ValidateVariants(body.variants[1]) # "ok"
              THEN Finish(q, handleError(badRequest(MsgVariants)))
              ELSE [q EXCEPT !.pc = "abc_set",
                             !.data = Some([r.value[1] EXCEPT
                                !.metadata = IF @ = None THEN Some(EmptyMetadata) ELSE @,
                                !.abTest = Some(ConfiguredABTest(r.value[1], body))])]]
  /\ created' = Touch(code)
  /\ UNCHANGED <<now, backend, slots, budget, api, rl, bulk, calc, task, nfault>>

\* lines 126-141: save, answer 200
ABConfigureSet(p) ==
  /\ proc[p].pc = "abc_set"
  /\ store' = StorageSet(backend, store, proc[p].code, proc[p].data[1], now)
  /\ proc' = [proc EXCEPT ![p] = Finish(@, Response(200, ""))]
  /\ UNCHANGED <<now, backend, slots, budget, api, rl, bulk, calc, task, nreq, nfault, created>>

\* DELETE /api/abtest/:shortCode arrives: handleDisableABTest lines 276-283
ABDisable(p, code) ==
  /\ CanStart(p)
  /\ nreq' = nreq + 1
  /\ LET r == StorageGet(backend, store, code, now)
         q == Arrive("abdisable", code)
         urlData == [r.value[1] EXCEPT
                       !.abTest = IF @ = None THEN @
                              ELSE Some([@[1] EXCEPT !.enabled = FALSE])]
     IN  /\ store' = IF r.value = None THEN r.store
                     ELSE SharedNested(backend, r.store, code, urlData)
         /\ proc' = [proc EXCEPT ![p] =
              IF r.value = None
              THEN Finish(q, handleError(notFound(MsgShortCodeNotFound(code))))
              ELSE [q EXCEPT !.pc = "abd_set", !.data = Some(urlData)]]
  /\ created' = Touch(code)
  /\ UNCHANGED <<now, backend, slots, budget, api, rl, bulk, calc, task, nfault>>

\* lines 285-297
ABDisableSet(p) ==
  /\ proc[p].pc = "abd_set"
  /\ store' = StorageSet(backend, store, proc[p].code, proc[p].data[1], now)
  /\ proc' = [proc EXCEPT ![p] = Finish(@, Response(200, ""))]
  /\ UNCHANGED <<now, backend, slots, budget, api, rl, bulk, calc, task, nreq, nfault, created>>

\* handleABTestRedirect is called for a code
CallABTestRedirect(p, code) ==
  /\ CanStart(p)
  /\ nreq' = nreq + 1
  /\ proc' = [proc EXCEPT ![p] = [Arrive("abredirect", code) EXCEPT !.pc = "ab_get"]]
  /\ created' = Touch(code)
  /\ UNCHANGED <<now, backend, slots, budget, api, rl, bulk, calc, store, task, nfault>>

\* handleABTestRedirect lines 197-200
ABGet(p) ==
  /\ proc[p].pc = "ab_get"
  /\ LET q == proc[p]
         r == StorageGet(backend, store, q.code, now)
     IN  /\ store' = r.store
         /\ proc' = [proc EXCEPT ![p] =
              IF r.value = None
              THEN Finish(q, handleError(notFound(MsgShortCodeNotFound(q.code))))
              ELSE [q EXCEPT !.pc = "ab_check", !.data = r.value]]
  /\ UNCHANGED <<now, backend, slots, budget, api, rl, bulk, calc, task, nreq, nfault, created>>

\* handleABTestRedirect without its expiry check
ABExpiredNever(urlData, t) == FALSE

\* line 203: urlData.expiresAt && urlData.expiresAt < Date.now()
ABExpired(urlData, t) == urlData.expiresAt # 0 /\ urlData.expiresAt < t

\* line 208
ABFallsBack(urlData) ==
  \/ urlData.abTest = None
  \/ ~urlData.abTest[1].enabled
  \/ Len(urlData.abTest[1].variants) = 0

\* lines 202-234: expiry check, fall-back or variant dispatch
ABCheck(p) ==
  /\ proc[p].pc = "ab_check"
  /\ LET q == [proc[p] EXCEPT !.checkedAt = now]
         urlData == q.data[1]
     IN  IF ABExpired(urlData, now)
         THEN /\ proc' = [proc EXCEPT ![p] = Finish(q, handleError(gone(MsgExpired)))]
              /\ task' = task
         ELSE IF ABFallsBack(urlData)
         THEN /\ proc' = [proc EXCEPT ![p] = [q EXCEPT !.pc = "fb_get"]]
              /\ task' = task
         ELSE \E random \in Draws(TotalWeight(urlData.abTest[1].variants)) :
                LET selectedVariant == selectVariant(urlData.abTest[1].variants, random)
                IN  /\ proc' = [proc EXCEPT ![p] =
                         Finish(q, Response(302, selectedVariant.url))]
                    /\ task' = [task EXCEPT ![p] =
                         [IdleTask EXCEPT !.pc = "get", !.kind = "ab", !.code = q.code,
                                          !.sel = Some(selectedVariant),
                                          !.idx = SelectedIndex(urlData.abTest[1].variants,
                                                                random)]]
  /\ created' = IF proc'[p].resp.status = 302 THEN Hit(proc[p].code) ELSE created
  /\ UNCHANGED <<now, backend, slots, budget, api, rl, bulk, calc, store, nreq, nfault>>

(***************************************************************************)
(* The awaited incrementStats of the two fall-back paths                   *)
(* (abtest.ts lines 209-216, georoute.ts lines 257-264)                    *)
(***************************************************************************)
\* a variant of incrementStats that leaves the counter as it was
CountVisitNot(urlData) == urlData

\* incrementStats adding two
CountVisitTwice(urlData) == [urlData EXCEPT !.visitCount = @ + 2]

\* incrementStats (kv.ts line 99, memory line 219), on the record it has read
CountVisit(urlData) == [urlData EXCEPT !.visitCount = @ + 1]

\* incrementStats: its get; a missing record makes it throw
FallbackGet(p) ==
  /\ proc[p].pc = "fb_get"
  /\ LET q == proc[p]
         r == StorageGet(backend, store, q.code, now)
     IN  /\ store' = r.store
         /\ proc' = [proc EXCEPT ![p] =
              IF r.value = None
              THEN Finish(q, handleError(PlainError(MsgIncNotFound(q.code))))
              ELSE [q EXCEPT !.pc = "fb_set", !.inc = r.value]]
  /\ UNCHANGED <<now, backend, slots, budget, api, rl, bulk, calc, task, nreq, nfault, created>>

\* incrementStats: its set, then the 302 to the original URL
FallbackSet(p) ==
  /\ proc[p].pc = "fb_set"
  /\ LET q == proc[p]
     IN  /\ store' = StorageSet(backend, store, q.code, CountVisit(q.inc[1]), now)
         /\ proc' = [proc EXCEPT ![p] = Finish(q, Response(302, q.data[1].originalUrl))]
         /\ created' = Hit(q.code)
  /\ UNCHANGED <<now, backend, slots, budget, api, rl, bulk, calc, task, nreq, nfault>>

\* the same, when the write throws
FallbackFails(p) ==
  /\ proc[p].pc = "fb_set"
  /\ nfault < MaxFaults
  /\ nfault' = nfault + 1
  /\ proc' = [proc EXCEPT ![p] =
       Finish([@ EXCEPT !.accountingFailed = TRUE],
              handleError(PlainError(MsgStorageFailure)))]
  /\ UNCHANGED <<now, backend, slots, budget, api, rl, bulk, calc, store, task, nreq, created>>


(***************************************************************************)
(* handlers/georoute.ts                                                    *)
(***************************************************************************)
US == <<"U","S">>

CA == <<"C","A">>

NA == <<"N","A">>

GeoRoute(country, continent, region, url) ==
  [country |-> country, continent |-> continent, region |-> region, url |-> url,
   visitCount |-> 0]

\* a continent rule listed before a country rule
Routes == <<GeoRoute(<<>>, NA, <<>>, "https://na.io/"),
            GeoRoute(US, <<>>, <<>>, "https://us.io/")>>

BadRoutes == <<GeoRoute(<<"u","s","a">>, <<>>, <<>>, "https://us.io/")>>

\* bodies of POST /api/georoute/:shortCode
GeoBodies ==
  { [json |-> FALSE, enabled |-> FALSE, routes |-> None, defaultUrl |-> ""],
    [json |-> TRUE, enabled |-> TRUE, routes |-> Some(Routes), defaultUrl |-> "https://d.io/"],
    [json |-> TRUE, enabled |-> TRUE, routes |-> Some(BadRoutes), defaultUrl |-> ""],
    [json |-> TRUE, enabled |-> TRUE, routes |-> None, defaultUrl |-> ""],
    [json |-> TRUE, enabled |-> FALSE, routes |-> None, defaultUrl |-> ""] }

\* request.cf of the requests the model sends
GeoInfos ==
  { [country |-> US, continent |-> NA, region |-> <<>>],
    [country |-> CA, continent |-> NA, region |-> <<>>],
    [country |-> <<>>, continent |-> <<>>, region |-> <<>>] }

CONTINENTS == { <<"A","F">>, <<"A","N">>, <<"A","S">>, <<"E","U">>, NA,
                <<"O","C">>, <<"S","A">> }

\* /^[A-Z]{2}$/
IsCountryCode(c) == Len(c) = 2 /\ c[1] \in Range(Upper) /\ c[2] \in Range(Upper)

\* handleConfigureGeoRouting lines 125-155
ValidRoutes(routes) ==
  /\ Len(routes) <= 50
  /\ \A i \in 1..Len(routes) :
       /\ routes[i].url # ""
       /\ routes[i].country # <<>> => IsCountryCode(routes[i].country)
       /\ routes[i].continent # <<>> => routes[i].continent \in CONTINENTS

\* the least of the indices hits, 0 when there is none
FirstIndex(hits) ==
  IF hits = {} THEN 0 ELSE CHOOSE i \in hits : \A j \in hits : i <= j

\* Array.prototype.find: the first element among those at the indices
\* hits (the ones that satisfy the test), or None
FirstMatch(routes, hits) ==
  IF hits = {} THEN None ELSE Some(routes[FirstIndex(hits)])

\* a variant of findMatchingRoute that takes the first route, in list
\* order, that matches at any of the three levels
findMatchingRouteInOrder(geoInfo, routes) ==
  FirstMatch(routes,
    {i \in 1..Len(routes) :
       \/ /\ geoInfo.country # <<>> /\ geoInfo.region # <<>>
          /\ routes[i].country = geoInfo.country /\ routes[i].region = geoInfo.region
       \/ /\ geoInfo.country # <<>>
          /\ routes[i].country = geoInfo.country /\ routes[i].region = <<>>
       \/ /\ geoInfo.continent # <<>>
          /\ routes[i].continent = geoInfo.continent})

\* findMatchingRoute lines 77-99
findMatchingRoute(geoInfo, routes) ==
  LET Exact(r) == r.country = geoInfo.country /\ r.region = geoInfo.region
      Country(r) == r.country = geoInfo.country /\ r.region = <<>>
      Continent(r) == r.continent = geoInfo.continent
      exact == IF geoInfo.country # <<>> /\ geoInfo.region # <<>>
               THEN FirstMatch(routes, {i \in 1..Len(routes) : Exact(routes[i])})
               ELSE None
      country == IF geoInfo.country # <<>>
                 THEN FirstMatch(routes, {i \in 1..Len(routes) : Country(routes[i])})
                 ELSE None
      continent == IF geoInfo.continent # <<>>
                   THEN FirstMatch(routes, {i \in 1..Len(routes) : Continent(routes[i])})
                   ELSE None
  IN  IF exact # None THEN exact
      ELSE IF country # None THEN country
      ELSE continent

\* handleGeoRoutedRedirect line 272
TargetUrl(matchedRoute, defaultUrl) ==
  IF matchedRoute # None THEN matchedRoute[1].url ELSE defaultUrl

\* lines 162-167: the geoRouting written into the record
ConfiguredGeoRouting(urlData, body) ==
  [enabled |-> body.enabled,
   routes |-> IF body.routes # None THEN body.routes[1]
              ELSE IF urlData.geoRouting # None THEN urlData.geoRouting[1].routes
              ELSE <<>>,
   defaultUrl |-> IF body.defaultUrl # "" THEN body.defaultUrl ELSE urlData.originalUrl,
   totalVisits |-> IF urlData.geoRouting # None THEN urlData.geoRouting[1].totalVisits
                   ELSE 0]

\* POST /api/georoute/:shortCode arrives: lines 110-167
GeoConfigure(p, code, body) ==
  /\ CanStart(p)
  /\ nreq' = nreq + 1
  /\ LET r == StorageGet(backend, store, code, now)
         q == Arrive("geoconfig", code)
     IN  /\ store' = r.store
         /\ proc' = [proc EXCEPT ![p] =
              IF r.value = None
              THEN Finish(q, handleError(notFound(MsgShortCodeNotFound(code))))
              ELSE IF ~body.json
              THEN Finish(q, handleError(badRequest(MsgInvalidJson)))
              ELSE IF body.routes # None /\ ~ValidRoutes(body.routes[1])
              THEN Finish(q, handleError(badRequest(MsgVariants)))
              ELSE [q EXCEPT !.pc = "geoc_set",
                             !.data = Some([r.value[1] EXCEPT
                                !.metadata = IF @ = None THEN Some(EmptyMetadata) ELSE @,
                                !.geoRouting = Some(ConfiguredGeoRouting(r.value[1], body))])]]
  /\ created' = Touch(code)
  /\ UNCHANGED <<now, backend, slots, budget, api, rl, bulk, calc, task, nfault>>

\* lines 169-184
GeoConfigureSet(p) ==
  /\ proc[p].pc = "geoc_set"
  /\ store' = StorageSet(backend, store, proc[p].code, proc[p].data[1], now)
  /\ proc' = [proc EXCEPT ![p] = Finish(@, Response(200, ""))]
  /\ UNCHANGED <<now, backend, slots, budget, api, rl, bulk, calc, task, nreq, nfault, created>>

\* DELETE /api/georoute/:shortCode arrives: handleDisableGeoRouting lines 337-344
GeoDisable(p, code) ==
  /\ CanStart(p)
  /\ nreq' = nreq + 1
  /\ LET r == StorageGet(backend, store, code, now)
         q == Arrive("geodisable", code)
         urlData == [r.value[1] EXCEPT
                       !.geoRouting = IF @ = None THEN @
                              ELSE Some([@[1] EXCEPT !.enabled = FALSE])]
     IN  /\ store' = IF r.value = None THEN r.store
                     ELSE SharedNested(backend, r.store, code, urlData)
         /\ proc' = [proc EXCEPT ![p] =
              IF r.value = None
              THEN Finish(q, handleError(notFound(MsgShortCodeNotFound(code))))
              ELSE [q EXCEPT !.pc = "geod_set", !.data = Some(urlData)]]
  /\ created' = Touch(code)
  /\ UNCHANGED <<now, backend, slots, budget, api, rl, bulk, calc, task, nfault>>

\* lines 346-358
GeoDisableSet(p) ==
  /\ proc[p].pc = "geod_set"
  /\ store' = StorageSet(backend, store, proc[p].code, proc[p].data[1], now)
  /\ proc' = [proc EXCEPT ![p] = Finish(@, Response(200, ""))]
  /\ UNCHANGED <<now, backend, slots, budget, api, rl, bulk, calc, task, nreq, nfault, created>>

\* handleGeoRoutedRedirect is called for a code
CallGeoRoutedRedirect(p, code) ==
  /\ CanStart(p)
  /\ nreq' = nreq + 1
  /\ proc' = [proc EXCEPT ![p] = [Arrive("georedirect", code) EXCEPT !.pc = "geo_get"]]
  /\ created' = Touch(code)
  /\ UNCHANGED <<now, backend, slots, budget, api, rl, bulk, calc, store, task, nfault>>

\* handleGeoRoutedRedirect lines 245-248
GeoGet(p) ==
  /\ proc[p].pc = "geo_get"
  /\ LET q == proc[p]
         r == StorageGet(backend, store, q.code, now)
     IN  /\ store' = r.store
         /\ proc' = [proc EXCEPT ![p] =
              IF r.value = None
              THEN Finish(q, handleError(notFound(MsgShortCodeNotFound(q.code))))
              ELSE [q EXCEPT !.pc = "geo_check", !.data = r.value]]
  /\ UNCHANGED <<now, backend, slots, budget, api, rl, bulk, calc, task, nreq, nfault, created>>

\* line 251: urlData.expiresAt && urlData.expiresAt < Date.now()
GeoExpired(urlData, t) == urlData.expiresAt # 0 /\ urlData.expiresAt < t

\* line 256
GeoFallsBack(urlData) ==
  \/ urlData.geoRouting = None
  \/ ~urlData.geoRouting[1].enabled
  \/ Len(urlData.geoRouting[1].routes) = 0

\* lines 250-287: expiry check, fall-back or rule dispatch
GeoCheck(p) ==
  /\ proc[p].pc = "geo_check"
  /\ LET q == [proc[p] EXCEPT !.checkedAt = now]
         urlData == q.data[1]
     IN  IF GeoExpired(urlData, now)
         THEN /\ proc' = [proc EXCEPT ![p] = Finish(q, handleError(gone(MsgExpired)))]
              /\ task' = task
         ELSE IF GeoFallsBack(urlData)
         THEN /\ proc' = [proc EXCEPT ![p] = [q EXCEPT !.pc = "fb_get"]]
              /\ task' = task
         ELSE \E geoInfo \in GeoInfos :
                LET matchedRoute == findMatchingRoute(geoInfo, urlData.geoRouting[1].routes)
                    targetUrl == TargetUrl(matchedRoute, urlData.geoRouting[1].defaultUrl)
                IN  /\ proc' = [proc EXCEPT ![p] = Finish(q, Response(302, targetUrl))]
                    /\ task' = [task EXCEPT ![p] =
                         [IdleTask EXCEPT !.pc = "get", !.kind = "geo", !.code = q.code,
                                          !.sel = matchedRoute,
                                          !.idx = IF matchedRoute = None THEN 0
                                                  ELSE FirstIndex(
                                                    {i \in 1..Len(urlData.geoRouting[1].routes) :
                                                       urlData.geoRouting[1].routes[i]
                                                         = matchedRoute[1]})]]
  /\ created' = IF proc'[p].resp.status = 302 THEN Hit(proc[p].code) ELSE created
  /\ UNCHANGED <<now, backend, slots, budget, api, rl, bulk, calc, store, nreq, nfault>>

(***************************************************************************)
(* The detached accounting promises                                        *)
(***************************************************************************)
\* updateABTestStats lines 248-262, on the record it has read
CountABVisit(urlData, selectedVariant) ==
  LET ab == urlData.abTest[1]
      hit == FirstMatch([i \in 1..Len(ab.variants) |-> i],
                        {i \in 1..Len(ab.variants) :
                           ab.variants[i].url = selectedVariant.url})
  IN  [urlData EXCEPT
         !.visitCount = @ + 1,
         !.abTest = Some([ab EXCEPT
            !.totalVisits = @ + 1,
            !.variants = [i \in 1..Len(ab.variants) |->
               IF hit # None /\ hit[1] = i
               THEN [ab.variants[i] EXCEPT !.visitCount = @ + 1]
               ELSE ab.variants[i]]])]

\* updateGeoRoutingStats lines 302-323, on the record it has read
CountGeoVisit(urlData, matchedRoute) ==
  LET geo == urlData.geoRouting[1]
      hit == IF matchedRoute = None THEN None
             ELSE FirstMatch([i \in 1..Len(geo.routes) |-> i],
                    {i \in 1..Len(geo.routes) :
                       /\ geo.routes[i].country = matchedRoute[1].country
                       /\ geo.routes[i].continent = matchedRoute[1].continent
                       /\ geo.routes[i].region = matchedRoute[1].region
                       /\ geo.routes[i].url = matchedRoute[1].url})
  IN  [urlData EXCEPT
         !.visitCount = @ + 1,
         !.geoRouting = Some([geo EXCEPT
            !.totalVisits = @ + 1,
            !.routes = [i \in 1..Len(geo.routes) |->
               IF hit # None /\ hit[1] = i
               THEN [geo.routes[i] EXCEPT !.visitCount = @ + 1]
               ELSE geo.routes[i]]])]

\* the read of incrementStats / updateABTestStats / updateGeoRoutingStats;
\* the promise ends here when there is nothing to update
TaskGet(p) ==
  /\ task[p].pc = "get"
  /\ LET t == task[p]
         r == StorageGet(backend, store, t.code, now)
         skip == \/ r.value = None
                 \/ t.kind = "ab" /\ r.value[1].abTest = None
                 \/ t.kind = "geo" /\ r.value[1].geoRouting = None
         counted == CASE t.kind = "inc" -> CountVisit(r.value[1])
                      [] t.kind = "ab" -> CountABVisit(r.value[1], t.sel[1])
                      [] t.kind = "geo" -> CountGeoVisit(r.value[1], t.sel)
     IN  /\ store' = IF skip THEN r.store
                     ELSE SharedNested(backend, r.store, t.code, counted)
         /\ task' = [task EXCEPT ![p] =
              IF skip THEN IdleTask
              ELSE [t EXCEPT !.pc = "set", !.data = Some(counted), !.before = r.value]]
  /\ UNCHANGED <<now, backend, slots, budget, api, rl, bulk, calc, proc, nreq, nfault, created>>

\* an accounting write that adds one to the count stored at the time of
\* the write
TaskSetAtomic(p) ==
  /\ task[p].pc = "set"
  /\ store' = StorageSet(backend, store, task[p].code,
                IF task[p].code \in DOMAIN store
                THEN CountVisit(store[task[p].code].data) ELSE task[p].data[1], now)
  /\ task' = [task EXCEPT ![p] = IdleTask]
  /\ UNCHANGED <<now, backend, slots, budget, api, rl, bulk, calc, proc, nreq, nfault, created>>

\* its write
TaskSet(p) ==
  /\ task[p].pc = "set"
  /\ store' = StorageSet(backend, store, task[p].code, task[p].data[1], now)
  /\ task' = [task EXCEPT ![p] = IdleTask]
  /\ UNCHANGED <<now, backend, slots, budget, api, rl, bulk, calc, proc, nreq, nfault, created>>

\* its write throws: the rejection is caught and dropped
TaskFails(p) ==
  /\ task[p].pc = "set"
  /\ nfault < MaxFaults
  /\ nfault' = nfault + 1
  /\ task' = [task EXCEPT ![p] = IdleTask]
  /\ proc' = [proc EXCEPT ![p] = [@ EXCEPT !.accountingFailed = TRUE]]
  /\ UNCHANGED <<now, backend, slots, budget, api, rl, bulk, calc, store, nreq, created>>

(***************************************************************************)
(* Time                                                                    *)
(***************************************************************************)
Tick ==
  /\ now < 1000 + 1000 * MaxTicks
  /\ now' = now + 1000
  /\ store' = IF backend = "kv" THEN KVPurge(store, now + 1000) ELSE store
  /\ UNCHANGED <<backend, slots, budget, api, rl, bulk, calc, proc, task, nreq, nfault, created>>

(***************************************************************************)
(* The pure functions, applied to inputs drawn from bounded sets           *)
(***************************************************************************)
\* no function applied yet
NoCalc == [fn |-> "", in |-> <<>>, out |-> <<>>]

\* variants per list, and the largest weight
MaxVariants == 3

MaxWeight == 2

\* routes per list
MaxRoutes == 3

\* the longest code asked of generateShortCode
MaxCodeLength == 8

VariantUrls ==
  <<"https://v1.io/", "https://v2.io/", "https://v3.io/", "https://v4.io/",
    "https://v5.io/">>

\* the non-empty variant lists of up to MaxVariants variants
VariantLists ==
  UNION { { [i \in 1..n |-> Variant(VariantUrls[i], w[i])] :
              w \in [1..n -> 0..MaxWeight] } : n \in 1..MaxVariants }

\* selectVariant on a list, Math.random() * totalWeight being random
ApplySelectVariant ==
  /\ calc = NoCalc
  /\ \E variants \in VariantLists :
       \E random \in 0..(IF TotalWeight(variants) = 0 THEN 0
                         ELSE TotalWeight(variants) - 1) :
         calc' = [fn |-> "selectVariant", in |-> <<variants, random>>,
                  out |-> selectVariant(variants, random)]
  /\ UNCHANGED <<now, backend, slots, budget, api, rl, bulk, store, proc, task, nreq, nfault, created>>

TX == <<"T","X">>

\* rules at each level: country and region, country, continent, and a
\* country rule that names its continent
RoutePool ==
  { GeoRoute(US, <<>>, TX, "https://tx.io/"),
    GeoRoute(US, <<>>, <<>>, "https://us.io/"),
    GeoRoute(<<>>, NA, <<>>, "https://na.io/"),
    GeoRoute(CA, NA, <<>>, "https://ca.io/") }

RouteLists == UNION { [1..n -> RoutePool] : n \in 0..MaxRoutes }

\* request.cf: with a region, without, from another country, without a
\* continent, absent
GeoInfosWide ==
  { [country |-> US, continent |-> NA, region |-> TX],
    [country |-> US, continent |-> NA, region |-> <<>>],
    [country |-> US, continent |-> <<>>, region |-> <<"N","Y">>],
    [country |-> CA, continent |-> NA, region |-> <<>>],
    [country |-> <<"M","X">>, continent |-> NA, region |-> TX],
    [country |-> <<>>, continent |-> <<>>, region |-> <<>>] }

\* handleGeoRoutedRedirect lines 267-272: the matched route and the target
ApplyFindMatchingRoute ==
  /\ calc = NoCalc
  /\ \E geoInfo \in GeoInfosWide : \E routes \in RouteLists :
       LET matchedRoute == findMatchingRoute(geoInfo, routes)
       IN  calc' = [fn |-> "findMatchingRoute", in |-> <<geoInfo, routes>>,
                    out |-> [matchedRoute |-> matchedRoute,
                             targetUrl |-> TargetUrl(matchedRoute, "https://d.io/")]]
  /\ UNCHANGED <<now, backend, slots, budget, api, rl, bulk, store, proc, task, nreq, nfault, created>>

\* generateShortCode on a normalized URL, Date.now() being timestamp
ApplyGenerateShortCode ==
  /\ calc = NoCalc
  /\ \E url \in {"https://a.co/", "http://b.io/x"} :
       \E counter \in 0..MaxRetries :
         \E codeLength \in 1..MaxCodeLength :
           \E k \in 1..(MaxTicks + 1) :
             calc' = [fn |-> "generateShortCode",
                      in |-> <<url, counter, codeLength, 1000 * k>>,
                      out |-> generateShortCode(url, counter, codeLength, 1000 * k)]
  /\ UNCHANGED <<now, backend, slots, budget, api, rl, bulk, store, proc, task, nreq, nfault, created>>

\* the numbers encoded and decoded again: 0..MaxNum, the powers of 62 and
\* their predecessors, 16-bit and 32-bit limits
MaxNum == 63

Numbers ==
  {[hi |-> h, lo |-> l] :
     h \in {0, 1, 3, 65535},
     l \in (0..MaxNum) \cup {122, 123, 999, 3843, 3844, 12345, 41727, 41728, 65535}}

\* decodeBase62(encodeBase62(num))
ApplyBase62 ==
  /\ calc = NoCalc
  /\ \E num \in Numbers :
       LET encoded == encodeBase62(num)
       IN  calc' = [fn |-> "base62", in |-> <<num>>,
                    out |-> [encoded |-> encoded, decoded |-> decodeBase62(encoded)]]
  /\ UNCHANGED <<now, backend, slots, budget, api, rl, bulk, store, proc, task, nreq, nfault, created>>

(***************************************************************************)
(* The storage operations, called one after another by one caller          *)
(***************************************************************************)
\* visits counted under one code
MaxVisits == 2

CodeXyz == <<"x","y","z">>

StoreCodes == {CodeAbc, CodeXyz}

\* expiresAt of the records written: none, passed at every instant of the
\* run, and two instants inside the run
StoreExpiries == {0, 500, 2000, 2500}

\* storage.set(c, d), d created now
StoreSet(c, expiresAt) ==
  LET d == NewURLData("https://a.co/", c, now, expiresAt, FALSE)
  IN  /\ store' = StorageSet(backend, store, c, d, now)
      /\ calc' = [fn |-> "set", in |-> <<c, d>>, out |-> None, before |-> store]
      /\ UNCHANGED <<now, backend, slots, budget, api, rl, bulk, proc, task, nreq, nfault, created>>

\* storage.get(c)
StoreGet(c) ==
  LET r == StorageGet(backend, store, c, now)
  IN  /\ store' = r.store
      /\ calc' = [fn |-> "get", in |-> <<c>>, out |-> r.value, before |-> store]
      /\ UNCHANGED <<now, backend, slots, budget, api, rl, bulk, proc, task, nreq, nfault, created>>

\* storage.exists(c)
StoreExists(c) ==
  /\ calc' = [fn |-> "exists", in |-> <<c>>, out |-> StorageExists(store, c),
              before |-> store]
  /\ UNCHANGED <<now, backend, slots, budget, api, rl, bulk, store, proc, task, nreq, nfault, created>>

\* storage.delete(c)
StoreDelete(c) ==
  /\ store' = StorageDelete(store, c)
  /\ calc' = [fn |-> "delete", in |-> <<c>>, out |-> None, before |-> store]
  /\ UNCHANGED <<now, backend, slots, budget, api, rl, bulk, proc, task, nreq, nfault, created>>

\* an incrementStats that starts a record where none is stored
StoreIncrementStatsUpsert(c) ==
  LET r == StorageGet(backend, store, c, now)
      urlData == IF r.value = None
                 THEN NewURLData("https://a.co/", c, now, 0, FALSE) ELSE r.value[1]
  IN  /\ urlData.visitCount < MaxVisits
      /\ store' = StorageSet(backend, r.store, c, CountVisit(urlData), now)
      /\ calc' = [fn |-> "incrementStats", in |-> <<c>>, out |-> None, before |-> store]
      /\ UNCHANGED <<now, backend, slots, budget, api, rl, bulk, proc, task, nreq, nfault, created>>

\* storage.incrementStats(c): get, throw when absent, count, set
StoreIncrementStats(c) ==
  LET r == StorageGet(backend, store, c, now)
  IN  /\ r.value # None => r.value[1].visitCount < MaxVisits
      /\ store' = IF r.value = None THEN r.store
                  ELSE StorageSet(backend, r.store, c, CountVisit(r.value[1]), now)
      /\ calc' = [fn |-> "incrementStats", in |-> <<c>>,
                  out |-> IF r.value = None
                          THEN Some(PlainError(MsgIncNotFound(c))) ELSE None,
                  before |-> store]
      /\ UNCHANGED <<now, backend, slots, budget, api, rl, bulk, proc, task, nreq, nfault, created>>

\* time passes between two calls
StoreTick ==
  /\ now < 1000 + 1000 * MaxTicks
  /\ now' = now + 1000
  /\ store' = IF backend = "kv" THEN KVPurge(store, now + 1000) ELSE store
  /\ calc' = NoCalc
  /\ UNCHANGED <<backend, slots, budget, api, rl, bulk, proc, task, nreq, nfault, created>>

(***************************************************************************)
(* middleware/ratelimit.ts: rateLimit and KVRateLimitStorage               *)
(***************************************************************************)
\* config.rateLimitPerMinute (env.RATE_LIMIT), kept small
RateLimitPerMinute == 2

\* windowSeconds
WindowSeconds == 60

\* getClientIP(request)
ClientIPs == {"1.1.1.1"}

\* no call of rateLimit under way
IdleRate == [pc |-> "idle", key |-> <<>>, window |-> 0, count |-> 0, resp |-> NoResponse]

\* counters: the keys ratelimit:ip:window of the KV namespace;
\* passed and limited: per key, the calls that returned null and a 429
NoRateLimit ==
  [counters |-> << >>, req |-> [p \in Procs |-> IdleRate],
   passed |-> << >>, limited |-> << >>]

\* Math.floor(Date.now() / 1000 / config.windowSeconds)
Window(t) == (t \div 1000) \div WindowSeconds

\* `ratelimit:${ip}:${window}`
RateLimitKey(ip, window) == <<"ratelimit", ip, window>>

\* one more under key k
Counted(f, k) ==
  [x \in DOMAIN f \cup {k} |-> IF x \in DOMAIN f THEN f[x] + (IF x = k THEN 1 ELSE 0) ELSE 1]

\* a request reaches rateLimit (lines 78-82)
RateStart(p, ip) ==
  /\ p \in slots
  /\ rl.req[p].pc \in {"idle", "done"}
  /\ nreq < budget
  /\ nreq' = nreq + 1
  /\ rl' = [rl EXCEPT !.req[p] =
       [IdleRate EXCEPT !.pc = "rl_get", !.window = Window(now),
                        !.key = RateLimitKey(ip, Window(now))]]
  /\ UNCHANGED <<now, backend, slots, budget, api, bulk, calc, store, proc, task, nfault, created>>

\* KVRateLimitStorage.increment lines 29-31: kv.get, count + 1
RateGet(p) ==
  /\ rl.req[p].pc = "rl_get"
  /\ LET key == rl.req[p].key
         count == IF key \in DOMAIN rl.counters THEN rl.counters[key] ELSE 0
     IN  rl' = [rl EXCEPT !.req[p].pc = "rl_put", !.req[p].count = count + 1]
  /\ UNCHANGED <<now, backend, slots, budget, api, bulk, calc, store, proc, task, nreq, nfault, created>>

\* the 429 of lines 88-107
TooManyRequests == [status |-> 429, location |-> "", message |-> <<>>]

\* increment lines 34-38: kv.put of the new count; then rateLimit lines
\* 87-111: over the limit a 429, else null
RatePut(p) ==
  /\ rl.req[p].pc = "rl_put"
  /\ LET q == rl.req[p]
         over == q.count > RateLimitPerMinute
     IN  rl' = [rl EXCEPT
                  !.counters = [k \in DOMAIN @ \cup {q.key} |->
                                  IF k = q.key THEN q.count ELSE @[k]],
                  !.req[p] = [q EXCEPT !.pc = "done",
                                       !.resp = IF over THEN TooManyRequests ELSE NoResponse],
                  !.passed = IF over THEN @ ELSE Counted(@, q.key),
                  !.limited = IF over THEN Counted(@, q.key) ELSE @]
  /\ UNCHANGED <<now, backend, slots, budget, api, bulk, calc, store, proc, task, nreq, nfault, created>>

\* lines 112-116: the store throws, the request is allowed
RateFails(p) ==
  /\ rl.req[p].pc \in {"rl_get", "rl_put"}
  /\ nfault < MaxFaults
  /\ nfault' = nfault + 1
  /\ rl' = [rl EXCEPT !.req[p].pc = "done", !.passed = Counted(@, rl.req[p].key)]
  /\ UNCHANGED <<now, backend, slots, budget, api, bulk, calc, store, proc, task, nreq, created>>

(***************************************************************************)
(* handlers/bulk.ts: POST /api/bulk/shorten                                *)
(***************************************************************************)
\* entries per request body
MaxEntries == 3

\* const maxBulkSize = 100
MaxBulkSize == 100

\* "Missing or invalid 'urls' array"
MsgUrlsMissing ==
  <<"M","i","s","s","i","n","g"," ","o","r"," ","i","n","v","a","l","i","d",
    " ","'","u","r","l","s","'"," ","a","r","r","a","y">>

\* "URLs array cannot be empty"
MsgUrlsEmpty ==
  <<"U","R","L","s"," ","a","r","r","a","y"," ","c","a","n","n","o","t"," ",
    "b","e"," ","e","m","p","t","y">>

\* "Bulk operation limited to "
MsgBulkLimitedPrefix ==
  <<"B","u","l","k"," ","o","p","e","r","a","t","i","o","n"," ","l","i","m",
    "i","t","e","d"," ","t","o"," ">>

\* " URLs per request"
MsgBulkLimitedSuffix ==
  <<" ","U","R","L","s"," ","p","e","r"," ","r","e","q","u","e","s","t">>

MsgBulkLimited == MsgBulkLimitedPrefix \o ToDecimal(MaxBulkSize) \o MsgBulkLimitedSuffix

\* "Cannot read properties of null (reading 'url')"
MsgNullEntry ==
  <<"C","a","n","n","o","t"," ","r","e","a","d"," ","p","r","o","p","e","r",
    "t","i","e","s"," ","o","f"," ","n","u","l","l"," ","(","r","e","a","d",
    "i","n","g"," ","'","u","r","l","'",")">>

\* one element of body.urls; url "" is a missing url, customCode <<>> a
\* missing customCode, expiresIn 0 a missing expiresIn; isNull: the element
\* is the JSON value null
Entry(url, customCode, expiresIn) ==
  [isNull |-> FALSE, url |-> url, customCode |-> customCode, expiresIn |-> expiresIn]

NullEntry == [isNull |-> TRUE, url |-> "", customCode |-> <<>>, expiresIn |-> 0]

BulkEntries ==
  { Entry("https://a.co", <<>>, 0), Entry("https://a.co", CodeAbc, 1),
    Entry("", <<>>, 0), Entry("ftp://a.co/", <<>>, 0),
    Entry("https://a.co", <<"A","P","I">>, 0), NullEntry }

\* request bodies: 1..MaxEntries entries, and the ones refused as a whole
BulkBodies ==
  { [json |-> TRUE, isArray |-> TRUE, urls |-> urls] :
      urls \in UNION { [1..n -> BulkEntries] : n \in 1..MaxEntries } }
  \cup { [json |-> FALSE, isArray |-> FALSE, urls |-> <<>>],
         [json |-> TRUE, isArray |-> FALSE, urls |-> <<>>],
         [json |-> TRUE, isArray |-> TRUE, urls |-> <<>>],
         [json |-> TRUE, isArray |-> TRUE,
          urls |-> [i \in 1..(MaxBulkSize + 1) |-> Entry("https://a.co", <<>>, 0)]] }

IdleBulk ==
  [pc |-> "idle", urls |-> <<>>, i |-> 0, results |-> <<>>, successful |-> 0,
   failed |-> 0, total |-> 0, resp |-> NoResponse]

\* results.push({ url, success: false, error })
Failure(url, error) ==
  [url |-> url, success |-> FALSE, shortCode |-> <<>>, error |-> error,
   createdAt |-> 0, expiresAt |-> 0]

\* results.push({ url: sanitizedUrl, success: true, shortCode, ... })
Success(url, shortCode, createdAt, expiresAt) ==
  [url |-> url, success |-> TRUE, shortCode |-> shortCode, error |-> <<>>,
   createdAt |-> createdAt, expiresAt |-> expiresAt]

\* lines 164-169: expiresAt, 0 = undefined
BulkExpiresAt(createdAt, expiresIn) ==
  IF expiresIn # 0 THEN createdAt + expiresIn * 1000 ELSE 0

\* generateUniqueShortCode (algorithm.ts lines 126-148) from attempt on: the
\* codes it can return, and the error when every attempt collides
RECURSIVE UniqueShortCodes(_, _, _, _)
UniqueShortCodes(url, s, t, attempt) ==
  IF attempt >= MaxRetries THEN {[ok |-> FALSE, code |-> <<>>]}
  ELSE LET candidates == generateShortCode(url, attempt, CodeLength, t)
           free == {c \in candidates : ~StorageExists(s, c)}
       IN  {[ok |-> TRUE, code |-> c] : c \in free}
           \cup (IF candidates # free
                 THEN UniqueShortCodes(url, s, t, attempt + 1) ELSE {})

\* handleBulkShorten lines 64-95: the body as a whole
BulkStart(p, body) ==
  /\ p \in slots
  /\ bulk[p].pc \in {"idle", "done"}
  /\ nreq < budget
  /\ nreq' = nreq + 1
  /\ bulk' = [bulk EXCEPT ![p] =
       IF ~body.json
       THEN [IdleBulk EXCEPT !.pc = "done",
                             !.resp = handleError(badRequest(MsgInvalidJson))]
       ELSE IF ~body.isArray
       THEN [IdleBulk EXCEPT !.pc = "done",
                             !.resp = handleError(badRequest(MsgUrlsMissing))]
       ELSE IF Len(body.urls) = 0
       THEN [IdleBulk EXCEPT !.pc = "done", !.urls = body.urls,
                             !.resp = handleError(badRequest(MsgUrlsEmpty))]
       ELSE IF Len(body.urls) > MaxBulkSize
       THEN [IdleBulk EXCEPT !.pc = "done", !.urls = body.urls,
                             !.resp = handleError(badRequest(MsgBulkLimited))]
       ELSE [IdleBulk EXCEPT !.pc = "loop", !.urls = body.urls, !.i = 1]]
  /\ UNCHANGED <<now, backend, slots, budget, api, rl, calc, store, proc, task, nfault, created>>

\* the entry reaches a storage call: it has a valid url and, if any, a
\* valid custom code
ReachesStorage(urlRequest) ==
  /\ ~urlRequest.isNull
  /\ urlRequest.url # ""
  /\ assertValidUrl(urlRequest.url).ok
  /\ urlRequest.customCode # <<>> => validateCustomCode(urlRequest.customCode).ok

\* one more result
Pushed(b, result) ==
  [b EXCEPT !.results = Append(@, result), !.i = @ + 1,
            !.successful = IF result.success THEN @ + 1 ELSE @,
            !.failed = IF result.success THEN @ ELSE @ + 1]

\* lines 97-207: one iteration of the loop.  Reading urlRequest.url of a
\* null entry throws a TypeError inside the try (line 100) and again inside
\* the catch (line 201), which ends the handler
BulkEntry(p) ==
  /\ bulk[p].pc = "loop"
  /\ bulk[p].i <= Len(bulk[p].urls)
  /\ LET b == bulk[p]
         urlRequest == b.urls[b.i]
         v == assertValidUrl(urlRequest.url)
         cv == validateCustomCode(urlRequest.customCode)
     IN  IF urlRequest.isNull
         THEN /\ bulk' = [bulk EXCEPT ![p] =
                   [b EXCEPT !.pc = "done",
                             !.resp = handleError(PlainError(MsgNullEntry))]]
              /\ store' = store
         ELSE IF urlRequest.url = ""
         THEN /\ bulk' = [bulk EXCEPT ![p] = Pushed(b, Failure("", MsgMissingUrl))]
              /\ store' = store
         ELSE IF ~v.ok
         THEN /\ bulk' = [bulk EXCEPT ![p] =
                   Pushed(b, Failure(urlRequest.url, v.error.message))]
              /\ store' = store
         ELSE IF urlRequest.customCode # <<>> /\ ~cv.ok
         THEN /\ bulk' = [bulk EXCEPT ![p] =
                   Pushed(b, Failure(urlRequest.url, cv.error.message))]
              /\ store' = store
         ELSE IF urlRequest.customCode # <<>> /\ StorageExists(store, urlRequest.customCode)
         THEN /\ bulk' = [bulk EXCEPT ![p] =
                   Pushed(b, Failure(urlRequest.url, MsgInUse(urlRequest.customCode)))]
              /\ store' = store
         ELSE \E u \in IF urlRequest.customCode # <<>>
                       THEN {[ok |-> TRUE, code |-> urlRequest.customCode]}
                       ELSE UniqueShortCodes(v.value, store, now, 0) :
                IF ~u.ok
                THEN /\ bulk' = [bulk EXCEPT ![p] =
                          Pushed(b, Failure(urlRequest.url, MsgExhausted))]
                     /\ store' = store
                ELSE LET createdAt == now
                         expiresAt == BulkExpiresAt(createdAt, urlRequest.expiresIn)
                         urlData == NewURLData(v.value, u.code, createdAt, expiresAt,
                                               urlRequest.customCode # <<>>)
                     IN  /\ store' = StorageSet(backend, store, u.code, urlData, now)
                         /\ bulk' = [bulk EXCEPT ![p] =
                              Pushed(b, Success(v.value, u.code, createdAt, expiresAt))]
  /\ UNCHANGED <<now, backend, slots, budget, api, rl, calc, proc, task, nreq, nfault, created>>

\* the same iteration when a storage call of it throws: lines 197-206
BulkEntryFails(p) ==
  /\ bulk[p].pc = "loop"
  /\ bulk[p].i <= Len(bulk[p].urls)
  /\ ReachesStorage(bulk[p].urls[bulk[p].i])
  /\ nfault < MaxFaults
  /\ nfault' = nfault + 1
  /\ bulk' = [bulk EXCEPT ![p] =
       Pushed(@, Failure(bulk[p].urls[bulk[p].i].url, MsgStorageFailure))]
  /\ UNCHANGED <<now, backend, slots, budget, api, rl, calc, store, proc, task, nreq, created>>

\* lines 209-222: the response
BulkFinish(p) ==
  /\ bulk[p].pc = "loop"
  /\ bulk[p].i > Len(bulk[p].urls)
  /\ bulk' = [bulk EXCEPT ![p] =
       [@ EXCEPT !.pc = "done", !.total = Len(bulk[p].urls),
                 !.resp = Response(200, "")]]
  /\ UNCHANGED <<now, backend, slots, budget, api, rl, calc, store, proc, task, nreq, nfault, created>>

(***************************************************************************)
(* One entry {url, customCode, expiresIn} handed to handleShorten and to   *)
(* handleBulkShorten on the same store at the same time                    *)
(***************************************************************************)
\* the stores the entry meets: empty, and with "abc" taken
SeenStores ==
  { << >>,
    StorageSet("memory", << >>, CodeAbc,
               NewURLData("https://z.io/", CodeAbc, 500, 0, TRUE), 500) }

CreateEntries ==
  { Entry(url, customCode, expiresIn) :
      url \in {"", "https://a.co", "HTTP://B.io/x", "ftp://a.co/"},
      customCode \in {<<>>, CodeAbc, <<"a","b">>},
      expiresIn \in ExpiresIns \cup {0} }

\* the codes the entry is stored under, when it reaches the storage.set
CreatedCodes(urlRequest, s, t) ==
  IF urlRequest.url = "" THEN {}
  ELSE IF ~assertValidUrl(urlRequest.url).ok THEN {}
  ELSE IF urlRequest.customCode # <<>>
  THEN IF ~validateCustomCode(urlRequest.customCode).ok THEN {}
       ELSE IF StorageExists(s, urlRequest.customCode) THEN {}
       ELSE {urlRequest.customCode}
  ELSE {u.code : u \in {x \in UniqueShortCodes(assertValidUrl(urlRequest.url).value, s, t, 0) :
                          x.ok}}

\* handleShorten lines 62-102: the records it may store for the entry
ShortenStores(urlRequest, s, t) ==
  { NewURLData(assertValidUrl(urlRequest.url).value, code, t,
               ExpiresAt(t, urlRequest.expiresIn), urlRequest.customCode # <<>>) :
      code \in CreatedCodes(urlRequest, s, t) }

\* handleBulkShorten lines 125-182: the records it may store for the entry
BulkStores(urlRequest, s, t) ==
  { NewURLData(assertValidUrl(urlRequest.url).value, code, t,
               BulkExpiresAt(t, urlRequest.expiresIn), urlRequest.customCode # <<>>) :
      code \in CreatedCodes(urlRequest, s, t) }

\* both handlers on one entry and one store, Date.now() being timestamp
ApplyCreate ==
  /\ calc = NoCalc
  /\ \E urlRequest \in CreateEntries : \E s \in SeenStores :
       \E k \in 1..(MaxTicks + 1) :
         LET timestamp == 1000 * k
         IN  calc' = [fn |-> "create", in |-> <<urlRequest, s, timestamp>>,
                      out |-> [single |-> ShortenStores(urlRequest, s, timestamp),
                               bulk |-> BulkStores(urlRequest, s, timestamp)]]
  /\ UNCHANGED <<now, backend, slots, budget, api, rl, bulk, store, proc, task, nreq, nfault, created>>

(***************************************************************************)
(* middleware/auth.ts: API keys                                            *)
(***************************************************************************)
\* the keys generateAPIKey can return
ApiKeys == {"sk_1", "sk_2"}

\* body.expiresIn of POST /api/keys, 0 = absent
KeyExpiresIns == {0, 1}

\* no call under way
IdleCall ==
  [pc |-> "idle", kind |-> "", key |-> "", keyData |-> None, at |-> 0,
   required |-> {}, status |-> 0]

\* kv: apikey:k -> APIKeyData; issued: per key, what POST /api/keys
\* answered; revoked: the keys whose revokeKey has completed
NoApi ==
  [kv |-> << >>, req |-> [p \in Procs |-> IdleCall], issued |-> << >>,
   revoked |-> {}]

CanCall(p) ==
  /\ p \in slots
  /\ api.req[p].pc \in {"idle", "done"}
  /\ nreq < budget

\* handleCreateAPIKey with a valid master key and a name: createKey stores
\* the record, then expiresAt is set on the object that is returned
CreateAPIKey(p, expiresIn) ==
  /\ CanCall(p)
  /\ nreq' = nreq + 1
  /\ \E apiKey \in ApiKeys \ DOMAIN api.kv :
       LET keyData == [key |-> apiKey, permissions |-> {"shorten", "stats"},
                       createdAt |-> now, lastUsedAt |-> 0, expiresAt |-> 0,
                       revoked |-> FALSE]
           answered == [keyData EXCEPT !.expiresAt =
                          IF expiresIn # 0 THEN now + expiresIn * 1000 ELSE 0]
       IN  api' = [api EXCEPT
                     !.kv = [k \in DOMAIN @ \cup {apiKey} |->
                               IF k = apiKey THEN keyData ELSE @[k]],
                     !.issued = [k \in DOMAIN @ \cup {apiKey} |->
                                   IF k = apiKey
                                   THEN [createdAt |-> now, expiresIn |-> expiresIn,
                                         expiresAt |-> answered.expiresAt]
                                   ELSE @[k]],
                     !.req[p] = [IdleCall EXCEPT !.pc = "done", !.kind = "create",
                                   !.key = apiKey, !.keyData = Some(answered),
                                   !.at = now, !.status = 201]]
  /\ UNCHANGED <<now, backend, slots, budget, rl, bulk, calc, store, proc, task, nfault, created>>

\* handleCreateAPIKey refusing the request: a wrong master key (401), a
\* missing name (400)
CreateAPIKeyRefused(p, status) ==
  /\ CanCall(p)
  /\ nreq' = nreq + 1
  /\ api' = [api EXCEPT !.req[p] =
       [IdleCall EXCEPT !.pc = "done", !.kind = "create", !.at = now,
                        !.status = status]]
  /\ UNCHANGED <<now, backend, slots, budget, rl, bulk, calc, store, proc, task, nfault, created>>

\* authenticate with a key given: validateKey lines 42-58, its kv.get and
\* its checks
ValidateGet(p, apiKey, required) ==
  /\ CanCall(p)
  /\ nreq' = nreq + 1
  /\ LET q == [IdleCall EXCEPT !.kind = "validate", !.key = apiKey, !.at = now,
                               !.required = required]
         keyData == api.kv[apiKey]
     IN  api' = [api EXCEPT !.req[p] =
           IF apiKey \notin DOMAIN api.kv
           THEN [q EXCEPT !.pc = "done", !.status = 401]
           ELSE IF keyData.revoked
           THEN [q EXCEPT !.pc = "done", !.status = 401]
           ELSE IF keyData.expiresAt # 0 /\ keyData.expiresAt < now
           THEN [q EXCEPT !.pc = "done", !.status = 401]
           ELSE [q EXCEPT !.pc = "val_put",
                          !.keyData = Some([keyData EXCEPT !.lastUsedAt = now])]]
  /\ UNCHANGED <<now, backend, slots, budget, rl, bulk, calc, store, proc, task, nfault, created>>

\* validateKey line 59: the kv.put of the record it has read; then
\* authenticate lines 187-216: 403 without the permissions, else accepted
ValidatePut(p) ==
  /\ api.req[p].pc = "val_put"
  /\ LET q == api.req[p]
         keyData == q.keyData[1]
         hasPermission == \A perm \in q.required :
                            perm \in keyData.permissions \/ "*" \in keyData.permissions
     IN  api' = [api EXCEPT
                   !.kv = [k \in DOMAIN @ \cup {q.key} |->
                             IF k = q.key THEN keyData ELSE @[k]],
                   !.req[p] = [q EXCEPT !.pc = "done",
                                        !.status = IF hasPermission THEN 200 ELSE 403]]
  /\ UNCHANGED <<now, backend, slots, budget, rl, bulk, calc, store, proc, task, nreq, nfault, created>>

\* handleRevokeAPIKey with a valid master key: revokeKey line 82, kv.get
RevokeGet(p, apiKey) ==
  /\ CanCall(p)
  /\ nreq' = nreq + 1
  /\ LET q == [IdleCall EXCEPT !.kind = "revoke", !.key = apiKey, !.at = now]
     IN  api' = [api EXCEPT
                   !.req[p] = IF apiKey \notin DOMAIN api.kv
                              THEN [q EXCEPT !.pc = "done", !.status = 200]
                              ELSE [q EXCEPT !.pc = "rev_put",
                                             !.keyData = Some(api.kv[apiKey])]]
  /\ UNCHANGED <<now, backend, slots, budget, rl, bulk, calc, store, proc, task, nfault, created>>

\* revokeKey lines 84-85: revoked = true, kv.put
RevokePut(p) ==
  /\ api.req[p].pc = "rev_put"
  /\ LET q == api.req[p]
     IN  api' = [api EXCEPT
                   !.kv = [k \in DOMAIN @ \cup {q.key} |->
                             IF k = q.key THEN [q.keyData[1] EXCEPT !.revoked = TRUE]
                             ELSE @[k]],
                   !.revoked = @ \cup {q.key},
                   !.req[p] = [q EXCEPT !.pc = "done", !.status = 200]]
  /\ UNCHANGED <<now, backend, slots, budget, rl, bulk, calc, store, proc, task, nreq, nfault, created>>

(***************************************************************************)
(* Specifications                                                          *)
(***************************************************************************)
InitWith(bs, s, n) ==
  /\ now = 1000
  /\ backend \in bs
  /\ slots = s
  /\ budget = n
  /\ calc = NoCalc
  /\ rl = NoRateLimit
  /\ api = NoApi
  /\ bulk = [p \in Procs |-> IdleBulk]
  /\ store = << >>
  /\ proc = [p \in Procs |-> IdleProc]
  /\ task = [p \in Procs |-> IdleTask]
  /\ nreq = 0
  /\ nfault = 0
  /\ created = << >>

\* the shipped backends, requests handled one at a time
Init == InitWith(Shipped, {1}, MaxReq)

\* POST /shorten and GET /:shortCode as index.ts routes them
Next ==
  \/ Tick
  \/ \E p \in Procs :
       \/ \E body \in ValidBodies : ShortenStart(p, body)
       \/ ShortenExists(p)
       \/ ShortenProbe(p)
       \/ \E expiresIn \in ExpiresIns : ShortenSet(p, expiresIn)
       \/ \E code \in RequestCodes : Route(p, code)
       \/ RedirectGet(p)
       \/ RedirectCheck(p)
       \/ RedirectDelete(p)
       \/ RedirectDeleteFails(p)
       \/ TaskGet(p)
       \/ TaskSet(p)
       \/ TaskFails(p)

Spec == Init /\ [][Next]_vars

\* POST /shorten alone, over valid and invalid bodies
NextShorten ==
  \/ Tick
  \/ \E p \in Procs :
       \/ \E body \in ShortenBodies : ShortenStart(p, body)
       \/ ShortenExists(p)
       \/ ShortenProbe(p)
       \/ \E expiresIn \in ExpiresIns : ShortenSet(p, expiresIn)

SpecShorten == Init /\ [][NextShorten]_vars

\* every backend, the extension endpoints and the extension handlers
InitExt == InitWith(Backends, {1}, MaxReq)

NextExt ==
  \/ Tick
  \/ \E p \in Procs :
       \/ ShortenStart(p, CustomBody)
       \/ ShortenExists(p)
       \/ \E expiresIn \in ExpiresIns : ShortenSet(p, expiresIn)
       \/ \E code \in RequestCodes : Route(p, code)
       \/ RedirectGet(p)
       \/ RedirectCheck(p)
       \/ RedirectDelete(p)
       \/ RedirectDeleteFails(p)
       \/ \E code \in RequestCodes : \E body \in ABBodies : ABConfigure(p, code, body)
       \/ ABConfigureSet(p)
       \/ \E code \in RequestCodes : ABDisable(p, code)
       \/ ABDisableSet(p)
       \/ \E code \in RequestCodes : CallABTestRedirect(p, code)
       \/ ABGet(p)
       \/ ABCheck(p)
       \/ FallbackGet(p)
       \/ FallbackSet(p)
       \/ FallbackFails(p)
       \/ \E code \in RequestCodes : \E body \in GeoBodies : GeoConfigure(p, code, body)
       \/ GeoConfigureSet(p)
       \/ \E code \in RequestCodes : GeoDisable(p, code)
       \/ GeoDisableSet(p)
       \/ \E code \in RequestCodes : CallGeoRoutedRedirect(p, code)
       \/ GeoGet(p)
       \/ GeoCheck(p)
       \/ TaskGet(p)
       \/ TaskSet(p)
       \/ TaskFails(p)

SpecExt == InitExt /\ [][NextExt]_vars

\* two requests at a time on one record that does not expire: a POST
\* /shorten and the GET /:shortCode accesses that follow, their accounting
\* promises interleaved with the next requests
InitOverlap == InitWith(Shipped, {1, 2}, MaxReq + 1)

\* two requests for the custom code "abc" that name different destinations
SameCodeBodies ==
  {body \in ValidBodies \cup {CustomBody} : body.customCode = CodeAbc}

NextOverlap ==
  \E p \in Procs :
    \/ \E body \in SameCodeBodies : ShortenStart(p, body)
    \/ ShortenExists(p)
    \/ ShortenSet(p, -1)
    \/ \E code \in RequestCodes : Route(p, code)
    \/ RedirectGet(p)
    \/ RedirectCheck(p)
    \/ TaskGet(p)
    \/ TaskSet(p)

SpecOverlap == InitOverlap /\ [][NextOverlap]_vars

\* POST /shorten with custom codes, within one millisecond
NextCustom ==
  \E p \in Procs :
    \/ \E body \in CustomBodies : ShortenStart(p, body)
    \/ ShortenExists(p)
    \/ \E expiresIn \in ExpiresIns : ShortenSet(p, expiresIn)

SpecCustom == Init /\ [][NextCustom]_vars

\* no request: one pure function applied to one input
InitPure == InitWith({"memory"}, {}, 0)

NextPure ==
  \/ ApplySelectVariant
  \/ ApplyFindMatchingRoute
  \/ ApplyGenerateShortCode
  \/ ApplyBase62
  \/ ApplyCreate

SpecPure == InitPure /\ [][NextPure]_vars

\* the storage contract, on both shipped backends
InitStore == InitWith(Shipped, {}, 0)

NextStore ==
  \/ \E c \in StoreCodes : \E expiresAt \in StoreExpiries : StoreSet(c, expiresAt)
  \/ \E c \in StoreCodes : StoreGet(c)
  \/ \E c \in StoreCodes : StoreExists(c)
  \/ \E c \in StoreCodes : StoreDelete(c)
  \/ \E c \in StoreCodes : StoreIncrementStats(c)
  \/ StoreTick

SpecStore == InitStore /\ [][NextStore]_vars

\* rateLimit, called by requests of one client that may overlap
InitRate == InitWith({"kv"}, {1, 2}, MaxReq + 1)

NextRate ==
  \/ \E p \in Procs : \E ip \in ClientIPs : RateStart(p, ip)
  \/ \E p \in Procs : RateGet(p)
  \/ \E p \in Procs : RatePut(p)
  \/ \E p \in Procs : RateFails(p)
  \/ Tick

SpecRate == InitRate /\ [][NextRate]_vars

\* one bulk request
InitBulk == InitWith(Shipped, {1}, 1)

NextBulk ==
  \/ \E p \in Procs : \E body \in BulkBodies : BulkStart(p, body)
  \/ \E p \in Procs : BulkEntry(p)
  \/ \E p \in Procs : BulkEntryFails(p)
  \/ \E p \in Procs : BulkFinish(p)

SpecBulk == InitBulk /\ [][NextBulk]_vars

\* the API key endpoints and authenticate, two calls at a time
InitKeys == InitWith({"kv"}, {1, 2}, MaxReq + 1)

NextKeys ==
  \/ \E p \in Procs : \E expiresIn \in KeyExpiresIns : CreateAPIKey(p, expiresIn)
  \/ \E p \in Procs : \E status \in {400, 401} : CreateAPIKeyRefused(p, status)
  \/ \E p \in Procs : \E apiKey \in ApiKeys : \E required \in {{}, {"shorten"}, {"admin"}} :
       ValidateGet(p, apiKey, required)
  \/ \E p \in Procs : ValidatePut(p)
  \/ \E p \in Procs : \E apiKey \in ApiKeys : RevokeGet(p, apiKey)
  \/ \E p \in Procs : RevokePut(p)
  \/ Tick

SpecKeys == InitKeys /\ [][NextKeys]_vars

\* a record that does not expire, configured through both extension
\* endpoints and then accessed through GET /:shortCode
InitDispatch == InitWith(Shipped, {1}, MaxReq + 1)

NextDispatch ==
  \E p \in Procs :
    \/ ShortenStart(p, CustomBody)
    \/ ShortenExists(p)
    \/ ShortenSet(p, -1)
    \/ \E code \in RequestCodes : \E body \in ABBodies : ABConfigure(p, code, body)
    \/ ABConfigureSet(p)
    \/ \E code \in RequestCodes : \E body \in GeoBodies : GeoConfigure(p, code, body)
    \/ GeoConfigureSet(p)
    \/ \E code \in RequestCodes : Route(p, code)
    \/ RedirectGet(p)
    \/ RedirectCheck(p)
    \/ TaskGet(p)
    \/ TaskSet(p)

SpecDispatch == InitDispatch /\ [][NextDispatch]_vars


(***************************************************************************)
\* two requests at a time on one record: a configuration request and a
\* GET /:shortCode whose accounting promise is still running
InitConfigure == InitWith(Shipped, {1, 2}, MaxReq + 1)

NextConfigure ==
  \E p \in Procs :
    \/ ShortenStart(p, CustomBody)
    \/ ShortenExists(p)
    \/ ShortenSet(p, -1)
    \/ \E code \in RequestCodes : \E body \in ABBodies : ABConfigure(p, code, body)
    \/ ABConfigureSet(p)
    \/ \E code \in RequestCodes : \E body \in GeoBodies : GeoConfigure(p, code, body)
    \/ GeoConfigureSet(p)
    \/ \E code \in RequestCodes : Route(p, code)
    \/ RedirectGet(p)
    \/ RedirectCheck(p)
    \/ TaskGet(p)
    \/ TaskSet(p)

SpecConfigure == InitConfigure /\ [][NextConfigure]_vars

(* Properties                                                              *)
(***************************************************************************)
Done(p) == proc[p].pc = "done"

\* the requests that resolve a code: the route and the two extension handlers
Accesses == {"get", "abredirect", "georedirect"}

\* the record of a code, as POST /shorten last stored it
Created(p) == created[proc[p].code]

\* slot p finishes a request in this step
Finishes(p) == proc[p].pc # "done" /\ proc'[p].pc = "done"

\* C1: on MemoryStorage and KVStorage, a GET /{code} that arrives strictly
\* after the expiresAt of the record stored under the code is answered 410
\* (Gone), not 404
C1_ExpiredGetIsGone ==
  \A p \in Procs :
    ( /\ Done(p) /\ proc[p].kind = "get"
      /\ backend \in Shipped
      /\ proc[p].code \in DOMAIN created
      /\ Created(p).expiresAt # 0
      /\ proc[p].at > Created(p).expiresAt )
    => proc[p].resp.status = 410

\* C2: an access that is answered 302 read a record that had not expired
\* when the handler checked it: no record with expiresAt strictly before the
\* access time is redirected, on any of the three handlers and on any backend
C2_NoRedirectOfExpired ==
  \A p \in Procs :
    ( /\ Done(p) /\ proc[p].kind \in Accesses
      /\ proc[p].resp.status = 302 )
    => /\ proc[p].data # None
       /\ ~( /\ proc[p].data[1].expiresAt # 0
             /\ proc[p].data[1].expiresAt < proc[p].checkedAt )

\* an extension handler has been handed an expired record and answered 410
C2_Witness ==
  \E p \in Procs :
    /\ Done(p) /\ proc[p].kind \in {"abredirect", "georedirect"}
    /\ proc[p].data # None
    /\ proc[p].data[1].expiresAt # 0
    /\ proc[p].data[1].expiresAt < proc[p].checkedAt
    /\ proc[p].resp.status = 410

\* C3: once POST /shorten has stored a record with expiresIn = -1, every
\* GET /{code} for its code is answered 410, never 404 and never 302
C3_NegativeExpiresInIsGone ==
  \A p \in Procs :
    ( /\ Done(p) /\ proc[p].kind = "get"
      /\ proc[p].code \in DOMAIN created
      /\ Created(p).expiresIn = -1 )
    => proc[p].resp.status = 410

ABOn(urlData) ==
  /\ urlData.abTest # None
  /\ urlData.abTest[1].enabled
  /\ Len(urlData.abTest[1].variants) > 0

GeoOn(urlData) ==
  /\ urlData.geoRouting # None
  /\ urlData.geoRouting[1].enabled
  /\ Len(urlData.geoRouting[1].routes) > 0

\* C4: a GET /{code} that redirects a record with an enabled A/B test goes to
\* the URL of one of its variants, and one that redirects a record with
\* enabled geo routing goes to the URL of a route or to the default URL
\* (stated for the shipped backends)
C4_ExtensionTakesEffect ==
  \A p \in Procs :
    ( /\ Done(p) /\ proc[p].kind = "get"
      /\ backend \in Shipped
      /\ proc[p].resp.status = 302
      /\ proc[p].data # None )
    => LET urlData == proc[p].data[1]
       IN  /\ (ABOn(urlData) /\ ~GeoOn(urlData)) =>
                \E i \in 1..Len(urlData.abTest[1].variants) :
                  proc[p].resp.location = urlData.abTest[1].variants[i].url
           /\ (GeoOn(urlData) /\ ~ABOn(urlData)) =>
                \/ \E i \in 1..Len(urlData.geoRouting[1].routes) :
                     proc[p].resp.location = urlData.geoRouting[1].routes[i].url
                \/ proc[p].resp.location = urlData.geoRouting[1].defaultUrl

\* C5: a POST /shorten whose url or custom code fails validation is
\* answered 400
C5_ValidationFailureIs400 ==
  \A p \in Procs :
    (Done(p) /\ proc[p].kind = "shorten" /\ proc[p].invalid)
    => proc[p].resp.status = 400

C7_CustomCodeConflict ==
  [][\A p \in Procs :
       ( /\ proc[p].pc = "sh_exists"
         /\ proc'[p] # proc[p]
         /\ proc[p].code \in DOMAIN store )
       => /\ proc'[p].pc = "done"
          /\ proc'[p].resp.status = 400
          /\ Includes(proc'[p].resp.message, NeedleInUse)
          /\ proc'[p].code = proc[p].code
          /\ proc'[p].probes = <<>>
          /\ store' = store]_vars

\* a POST /shorten found its custom code taken by a record stored earlier
C7_Witness ==
  \E p \in Procs :
    /\ Done(p) /\ proc[p].kind = "shorten" /\ proc[p].existed
    /\ proc[p].code \in DOMAIN store
    /\ store[proc[p].code].data.createdAt < proc[p].at
    /\ proc[p].resp.status = 400

\* C8: the code generateUniqueShortCode returns is the candidate of its last
\* probe, that probe answered false, and every earlier probe answered true
C8_ReturnsFirstFreeCandidate ==
  \A p \in Procs :
    ( /\ proc[p].kind = "shorten" /\ ~proc[p].custom
      /\ \/ proc[p].pc = "sh_set"
         \/ Done(p) /\ proc[p].resp.status = 201 )
    => LET probes == proc[p].probes
       IN  /\ Len(probes) = proc[p].attempt + 1
           /\ probes[Len(probes)].code = proc[p].code
           /\ ~probes[Len(probes)].exists
           /\ \A i \in 1..(Len(probes) - 1) : probes[i].exists

\* a code was returned by the second attempt, after a collision
C8_Witness ==
  \E p \in Procs :
    /\ proc[p].kind = "shorten" /\ proc[p].pc = "sh_set"
    /\ Len(proc[p].probes) = 2
    /\ proc[p].probes[1].exists
    /\ proc[p].probes[1].code # proc[p].code

AllCollided(p) ==
  /\ Len(proc[p].probes) = MaxRetries
  /\ \A i \in 1..MaxRetries : proc[p].probes[i].exists

\* C9: when the candidates of all maxRetries attempts collide, the request
\* is over after exactly maxRetries probes, has built and stored no record
\* and is answered 5xx with the exhaustion message; no request probes more
\* than maxRetries times
C9_Exhaustion ==
  \A p \in Procs :
    /\ Len(proc[p].probes) <= MaxRetries
    /\ (proc[p].kind = "shorten" /\ AllCollided(p))
       => /\ Done(p)
          /\ proc[p].resp.status >= 500
          /\ proc[p].resp.message = MsgExhausted
          /\ proc[p].data = None

\* every attempt of a POST /shorten collided
C9_Witness ==
  \E p \in Procs : proc[p].kind = "shorten" /\ AllCollided(p) /\ Done(p)

\* C10: an access whose accounting write failed is answered 302 all the
\* same (stated for the shipped backends)
C10_AccountingFailureHarmless ==
  \A p \in Procs :
    ( /\ Done(p) /\ proc[p].kind \in Accesses
      /\ backend \in Shipped
      /\ proc[p].accountingFailed )
    => proc[p].resp.status = 302

\* C11: accesses that do not overlap, none of whose accounting writes
\* failed: once the accounting of each has run, the stored visitCount is
\* the number of 302 answers given for the record since its creation
C11_VisitCountCountsRedirects ==
  \A c \in DOMAIN store \cap DOMAIN created :
    (nfault = 0 /\ \A p \in Procs : task[p].pc = "idle")
      => store[c].data.visitCount = created[c].hits

\* a record redirected twice, both accountings done
C11_Witness ==
  \E c \in DOMAIN store \cap DOMAIN created :
    /\ nfault = 0
    /\ \A p \in Procs : task[p].pc = "idle"
    /\ created[c].hits = 2
    /\ store[c].data.visitCount = 2

\* the record an accounting promise must write when it has read urlData
\* and the access selected the variant or rule at position idx (0: none)
Accounted(urlData, kind, idx) ==
  IF kind = "ab"
  THEN [urlData EXCEPT
          !.visitCount = @ + 1,
          !.abTest = Some([@[1] EXCEPT
             !.totalVisits = @ + 1,
             !.variants = [i \in 1..Len(@) |->
                IF i = idx THEN [@[i] EXCEPT !.visitCount = @ + 1] ELSE @[i]]])]
  ELSE [urlData EXCEPT
          !.visitCount = @ + 1,
          !.geoRouting = Some([@[1] EXCEPT
             !.totalVisits = @ + 1,
             !.routes = [i \in 1..Len(@) |->
                IF i = idx THEN [@[i] EXCEPT !.visitCount = @ + 1] ELSE @[i]]])]

\* C12: the accounting write of an access dispatched through an extension
\* leaves the record as it was read, but for visitCount, the extension's
\* totalVisits and the counter of the selected variant or rule, each one
\* higher (stated for the shipped backends)
C12_ExactlyThreeCounters ==
  [][\A p \in Procs :
       ( /\ task[p].pc = "set" /\ task'[p].pc = "idle" /\ nfault' = nfault
         /\ task[p].kind \in {"ab", "geo"}
         /\ backend \in Shipped )
       => store'[task[p].code].data
            = Accounted(task[p].before[1], task[p].kind, task[p].idx)]_vars

\* C13: the accounting write of a redirect access never lowers the
\* visitCount of a record that is stored, however the accesses interleave
C13_VisitCountNeverDecreases ==
  [][\A p \in Procs :
       ( /\ task[p].pc = "set" /\ task'[p].pc = "idle"
         /\ task[p].kind = "inc"
         /\ task[p].code \in DOMAIN store )
       => /\ store'[task[p].code].data.visitCount >= 0
          /\ store'[task[p].code].data.visitCount
               >= store[task[p].code].data.visitCount]_vars

\* C14: a GET /{code} of a record that carries both an enabled A/B test
\* with a variant and enabled geo routing with a rule is answered with a
\* redirect to the URL of one of the variants
C14_VariantsBeforeGeo ==
  \A p \in Procs :
    ( /\ Done(p) /\ proc[p].kind = "get"
      /\ proc[p].data # None
      /\ ABOn(proc[p].data[1]) /\ GeoOn(proc[p].data[1]) )
    => /\ proc[p].resp.status = 302
       /\ \E i \in 1..Len(proc[p].data[1].abTest[1].variants) :
            proc[p].resp.location = proc[p].data[1].abTest[1].variants[i].url

\* C15: for a non-empty list and a draw r with 0 <= r < total, selectVariant
\* returns the first variant of the list whose cumulative weight is at
\* least r; when the total is 0 it returns the first variant
C15_SelectsFirstCumulative ==
  calc.fn = "selectVariant" =>
    LET variants == calc.in[1]
        r == calc.in[2]
    IN  \E i \in 1..Len(variants) :
          /\ calc.out = variants[i]
          /\ TotalWeight(variants) = 0 => i = 1
          /\ TotalWeight(variants) > 0 =>
               /\ SumWeights(variants, i) >= r
               /\ \A j \in 1..(i - 1) : SumWeights(variants, j) < r

\* a draw equal to the cumulative weight of the second variant, beyond
\* that of the first: the second is returned
C15_Witness ==
  /\ calc.fn = "selectVariant"
  /\ Len(calc.in[1]) = 3
  /\ calc.in[2] = SumWeights(calc.in[1], 2)
  /\ calc.in[2] > SumWeights(calc.in[1], 1)
  /\ calc.out = calc.in[1][2]

\* the positions of the rules of a list that match at each level
ExactHits(geoInfo, routes) ==
  {i \in 1..Len(routes) :
     /\ geoInfo.country # <<>> /\ geoInfo.region # <<>>
     /\ routes[i].country = geoInfo.country /\ routes[i].region = geoInfo.region}

CountryHits(geoInfo, routes) ==
  {i \in 1..Len(routes) :
     /\ geoInfo.country # <<>>
     /\ routes[i].country = geoInfo.country /\ routes[i].region = <<>>}

ContinentHits(geoInfo, routes) ==
  {i \in 1..Len(routes) :
     geoInfo.continent # <<>> /\ routes[i].continent = geoInfo.continent}

C20_CodeHasConfiguredLength ==
  calc.fn = "generateShortCode" =>
    /\ calc.out # {}
    /\ \A code \in calc.out :
         /\ Len(code) = calc.in[3]
         /\ \A i \in 1..Len(code) : code[i] \in Range(BASE62_CHARS)

\* a code of 8 symbols, the last ones drawn at random
C20_Witness ==
  /\ calc.fn = "generateShortCode"
  /\ calc.in[3] = 8
  /\ Cardinality(calc.out) > 1
  /\ \A code \in calc.out : Len(code) = 8

\* C17: in every stored record whose A/B test is enabled, the test has
\* between 2 and 10 variants, each weight is within 0..100 and the weights
\* sum to 100 (stated for the shipped backends)
C17_EnabledVariantSetValid ==
  \A c \in DOMAIN store :
    ( /\ backend \in Shipped
      /\ store[c].data.abTest # None
      /\ store[c].data.abTest[1].enabled )
    => LET variants == store[c].data.abTest[1].variants
       IN  /\ Len(variants) >= 2 /\ Len(variants) <= 10
           /\ \A i \in 1..Len(variants) :
                variants[i].weight >= 0 /\ variants[i].weight <= 100
           /\ TotalWeight(variants) = 100

\* the claim's condition on a custom code: 3 to 20 symbols, each a letter,
\* a digit, a hyphen or an underscore, and not a reserved word in any case
Acceptable(code) ==
  /\ Len(code) >= 3 /\ Len(code) <= 20
  /\ \A i \in 1..Len(code) :
       code[i] \in Range(Lower) \cup Range(Upper) \cup Range(Digits) \cup {"-", "_"}
  /\ toLowerCase(code) \notin
       { <<"a","p","i">>, <<"h","e","a","l","t","h">>, <<"a","d","m","i","n">>,
         <<"s","t","a","t","s">>, <<"s","h","o","r","t","e","n">>, <<"n","e","w">>,
         <<"c","r","e","a","t","e">> }

\* a POST /shorten with a valid url and a custom code
WithCustomCode(p) ==
  /\ proc[p].kind = "shorten"
  /\ proc[p].url # ""
  /\ proc[p].code # <<>>
  /\ proc[p].probes = <<>>

\* C18: a custom code is rejected exactly when it is not acceptable, and
\* the request that carried a rejected code is over with no record built
\* and nothing stored under the code
C18_CustomCodeAccepted ==
  \A p \in Procs :
    WithCustomCode(p) =>
      /\ proc[p].invalid <=> ~Acceptable(proc[p].code)
      /\ ~Acceptable(proc[p].code) =>
           /\ Done(p)
           /\ proc[p].data = None
           /\ proc[p].code \notin DOMAIN store

\* a code of 20 symbols stored, and a code of 21 symbols rejected
C18_Witness ==
  /\ Code20 \in DOMAIN store
  /\ \E p \in Procs :
       /\ WithCustomCode(p) /\ Done(p)
       /\ Len(proc[p].code) = 21
       /\ proc[p].invalid

\* C19: no stored code is a reserved word or the path of a GET route that
\* is matched before GET /:shortCode
C19_StoredCodesResolvable ==
  \A c \in DOMAIN store :
    /\ toLowerCase(c) \notin RESERVED
    /\ c \notin LiteralRoutes

\* C21: generateShortCode has one result for one URL, attempt counter,
\* code length and generation timestamp
C21_GenerationDeterministic ==
  calc.fn = "generateShortCode" => Cardinality(calc.out) = 1


\* C22: decoding the base-62 form of a number gives the number back; 0 is
\* the single first alphabet symbol, any other number starts with a
\* non-zero symbol and ends with the symbol of its remainder modulo 62
C22_Base62RoundTrip ==
  calc.fn = "base62" =>
    LET num == calc.in[1]
        encoded == calc.out.encoded
    IN  /\ calc.out.decoded = num
        /\ IsZero(num) => encoded = <<BASE62_CHARS[1]>>
        /\ ~IsZero(num) =>
             /\ encoded[1] # BASE62_CHARS[1]
             /\ encoded[Len(encoded)] = BASE62_CHARS[Mod62(num) + 1]

\* a number of six symbols whose first and last symbols differ
C22_Witness ==
  /\ calc.fn = "base62"
  /\ Len(calc.out.encoded) = 6
  /\ calc.out.encoded[1] # calc.out.encoded[6]
  /\ calc.out.decoded = calc.in[1]


\* C23: right after set(c, d) with d not expired, get(c) gives d and
\* exists(c) is true, whether or not a record was stored under c before;
\* the records under the other codes are as they were
C23_SetIsUpsert ==
  (calc.fn = "set" /\ ~isExpired(calc.in[2], now)) =>
    LET c == calc.in[1]
        d == calc.in[2]
    IN  /\ StorageGet(backend, store, c, now).value = Some(d)
        /\ StorageExists(store, c)
        /\ DOMAIN store \ {c} = DOMAIN calc.before \ {c}
        /\ \A k \in DOMAIN store \ {c} : store[k] = calc.before[k]

\* a set over a different record, another code being stored
C23_Witness ==
  /\ calc.fn = "set"
  /\ ~isExpired(calc.in[2], now)
  /\ calc.in[1] \in DOMAIN calc.before
  /\ calc.before[calc.in[1]].data # calc.in[2]
  /\ DOMAIN store # {calc.in[1]}
  /\ StorageGet(backend, store, calc.in[1], now).value = Some(calc.in[2])


\* C24: incrementStats(c) with no record stored under c throws an error
\* whose message says "not found", and the store is as it was
C24_IncrementAbsentFails ==
  (calc.fn = "incrementStats" /\ calc.in[1] \notin DOMAIN calc.before) =>
    /\ calc.out = Some(PlainError(MsgIncNotFound(calc.in[1])))
    /\ Includes(calc.out[1].message, NeedleNotFound)
    /\ store = calc.before

\* the call on an absent code while another code is stored
C24_Witness ==
  /\ calc.fn = "incrementStats"
  /\ calc.in[1] \notin DOMAIN calc.before
  /\ calc.before # << >>
  /\ calc.out # None
  /\ store = calc.before


\* C25: get(c) on a stored record whose expiresAt has passed gives nothing
\* and removes the record, so that exists(c) is false right after it;
\* get(c) on any other stored record gives the record and leaves the store
\* as it was
C25_LazyRemovalOnRead ==
  (calc.fn = "get" /\ calc.in[1] \in DOMAIN calc.before) =>
    LET c == calc.in[1]
        data == calc.before[c].data
    IN  IF isExpired(data, now)
        THEN /\ calc.out = None
             /\ store = Remove(calc.before, c)
             /\ ~StorageExists(store, c)
        ELSE /\ calc.out = Some(data)
             /\ store = calc.before

\* an expired record read from KVStorage while another record is stored
C25_Witness ==
  /\ calc.fn = "get"
  /\ backend = "kv"
  /\ calc.in[1] \in DOMAIN calc.before
  /\ isExpired(calc.before[calc.in[1]].data, now)
  /\ calc.out = None
  /\ DOMAIN store = DOMAIN calc.before \ {calc.in[1]}
  /\ store # << >>


\* the counters of answered redirects, per created code
Hits == [c \in DOMAIN created |-> created[c].hits]

\* C26: a GET /{code} that looks up a code under which nothing is stored
\* writes nothing (no record appears or disappears, no accounting starts),
\* and handleRedirect answers it 404
C26_AbsentGetIsNotFound ==
  [][\A p \in Procs :
       ( /\ proc'[p] # proc[p]
         /\ nreq' # nreq \/ proc[p].pc = "rd_get"
         /\ proc'[p].kind = "get"
         /\ proc'[p].code \notin LiteralRoutes
         /\ proc'[p].code \notin DOMAIN store )
       => /\ store' = store
          /\ task' = task
          /\ Hits' = Hits
          /\ IF proc[p].pc = "rd_get"
             THEN Done(p)' /\ proc'[p].resp.status = 404
             ELSE proc'[p].pc = "rd_get"]_vars

\* a 404 for a code that was never created, while another record is stored
C26_Witness ==
  \E p \in Procs :
    /\ Done(p) /\ proc[p].kind = "get"
    /\ proc[p].code \notin DOMAIN created
    /\ proc[p].resp.status = 404
    /\ store # << >>


\* C27: a GET /{code} whose handler found the record expired is answered
\* 410, whether its storage.delete succeeded or threw
C27_GoneDespiteFailedDelete ==
  \A p \in Procs :
    ( /\ Done(p) /\ proc[p].kind = "get"
      /\ proc[p].checkedAt # 0
      /\ RedirectExpired(proc[p].data[1], proc[p].checkedAt) )
    => proc[p].resp.status = 410


\* C28: a record created with expiresIn = t > 0 has expiresAt = createdAt +
\* 1000 * t and one created with no expiry has none; a GET /{code} for a
\* created code is answered 302 with the record's URL whenever it is
\* answered not later than the record's expiresAt, and always when the
\* record has no expiresAt
C28_ResolvableUntilExpiresAt ==
  /\ \A c \in DOMAIN created :
       created[c].expiresAt =
         IF created[c].expiresIn > 0
         THEN created[c].createdAt + 1000 * created[c].expiresIn ELSE 0
  /\ \A p \in Procs :
       ( /\ Done(p) /\ proc[p].kind = "get"
         /\ proc[p].code \in DOMAIN created
         /\ Created(p).expiresAt = 0 \/ now <= Created(p).expiresAt )
       => /\ proc[p].resp.status = 302
          /\ proc[p].resp.location = Created(p).url


\* C29: while the rate-limit store has not failed, at most
\* RateLimitPerMinute calls of rateLimit have let their request through
\* under one key (one client IP, one window), and every finished call has
\* either let its request through or answered 429
C29_RateLimitHolds ==
  nfault = 0 =>
    /\ \A k \in DOMAIN rl.passed : rl.passed[k] <= RateLimitPerMinute
    /\ \A p \in Procs :
         (rl.req[p].pc = "done" /\ rl.req[p].count > RateLimitPerMinute)
         => rl.req[p].resp.status = 429


\* the results of a finished bulk request that report a success
Successes(b) == {i \in 1..Len(b.results) : b.results[i].success}

\* C30: a bulk request of 1..MaxBulkSize entries is answered 200 with one
\* result per entry, in the order of the entries, its counters adding up to
\* the number of entries; every success names a code of its own under which
\* the record of that entry is stored
C30_BulkResults ==
  \A p \in Procs :
    LET b == bulk[p]
    IN  (b.pc = "done" /\ Len(b.urls) \in 1..MaxBulkSize) =>
          /\ b.resp.status = 200
          /\ Len(b.results) = Len(b.urls)
          /\ b.total = Len(b.urls)
          /\ b.successful + b.failed = b.total
          /\ b.successful = Cardinality(Successes(b))
          /\ \A i \in 1..Len(b.results) :
               b.results[i].url =
                 IF b.results[i].success
                 THEN assertValidUrl(b.urls[i].url).value ELSE b.urls[i].url
          /\ \A i \in Successes(b) :
               /\ b.results[i].shortCode \in DOMAIN store
               /\ store[b.results[i].shortCode].data.originalUrl = b.results[i].url
               /\ store[b.results[i].shortCode].data.createdAt = b.results[i].createdAt
               /\ \A j \in Successes(b) :
                    b.results[j].shortCode = b.results[i].shortCode => j = i


\* C31: a key issued with expiresIn = t > 0 is refused (401) by every
\* validation that starts later than t seconds after its creation
C31_KeyExpires ==
  \A p \in Procs :
    LET q == api.req[p]
    IN  ( /\ q.pc = "done" /\ q.kind = "validate"
          /\ q.key \in DOMAIN api.issued
          /\ api.issued[q.key].expiresIn > 0
          /\ q.at > api.issued[q.key].createdAt + 1000 * api.issued[q.key].expiresIn )
        => q.status = 401


\* C32: the accounting write of a redirect stores the visitCount its own
\* read returned plus one, whatever has been written since that read
C32_AccountingIsReadModifyWrite ==
  [][\A p \in Procs :
       ( /\ task[p].pc = "set" /\ task'[p].pc = "idle"
         /\ task[p].kind = "inc"
         /\ nfault' = nfault )
       => store'[task[p].code].data.visitCount
            = task[p].before[1].visitCount + 1]_vars

\* the lost update: two redirects answered 302 for one code, both
\* accounting writes done, none failed, and visitCount is 1
C32_Witness ==
  \E c \in DOMAIN store \cap DOMAIN created :
    /\ created[c].hits = 2
    /\ \A p \in Procs : task[p].pc = "idle" /\ proc[p].pc = "done"
    /\ \A p \in Procs : proc[p].kind = "get" /\ proc[p].resp.status = 302
    /\ nfault = 0
    /\ store[c].data.visitCount = 1


\* C33: the write of a POST /shorten is made whatever has been stored since
\* its existence check: the request is answered 201 and the record left
\* under its code is its own (the last writer wins)
C33_LastWriterWins ==
  [][\A p \in Procs :
       (proc[p].pc = "sh_set" /\ proc'[p].pc = "done")
       => /\ proc'[p].resp.status = 201
          /\ store'[proc[p].code].data.originalUrl = proc[p].url
          /\ store'[proc[p].code].data = proc'[p].data[1]]_vars

\* two overlapping POST /shorten for one code, both answered 201, and the
\* code resolves to the destination of one of them only
C33_Witness ==
  \E p, r \in Procs :
    /\ p # r
    /\ Done(p) /\ Done(r)
    /\ proc[p].kind = "shorten" /\ proc[r].kind = "shorten"
    /\ proc[p].code = proc[r].code
    /\ proc[p].resp.status = 201 /\ proc[r].resp.status = 201
    /\ proc[p].code \in DOMAIN store
    /\ store[proc[p].code].data.originalUrl = proc[r].url
    /\ proc[p].url # proc[r].url


\* the A/B configuration of a record: enabled, and each variant's url and
\* weight (the counters left out)
ABConfiguration(urlData) ==
  IF urlData.abTest = None THEN None
  ELSE Some([enabled |-> urlData.abTest[1].enabled,
             variants |-> [i \in 1..Len(urlData.abTest[1].variants) |->
                [url |-> urlData.abTest[1].variants[i].url,
                 weight |-> urlData.abTest[1].variants[i].weight]]])

\* the geo configuration of a record: enabled, the default URL and each
\* rule's place and url (the counters left out)
GeoConfiguration(urlData) ==
  IF urlData.geoRouting = None THEN None
  ELSE Some([enabled |-> urlData.geoRouting[1].enabled,
             defaultUrl |-> urlData.geoRouting[1].defaultUrl,
             routes |-> [i \in 1..Len(urlData.geoRouting[1].routes) |->
                [urlData.geoRouting[1].routes[i] EXCEPT !.visitCount = 0]]])

\* C35: the accounting write of a redirect leaves the A/B and geo
\* configuration of the stored record as it was, also when a configuration
\* request has been answered 200 between the accounting's read and its write
C35_AccountingKeepsConfiguration ==
  [][\A p \in Procs :
       ( /\ task[p].pc = "set" /\ task'[p].pc = "idle"
         /\ task[p].code \in DOMAIN store )
       => /\ ABConfiguration(store'[task[p].code].data)
               = ABConfiguration(store[task[p].code].data)
          /\ GeoConfiguration(store'[task[p].code].data)
               = GeoConfiguration(store[task[p].code].data)]_vars


C36_RevocationPermanent ==
  [][/\ \A k \in api.revoked' : api.kv'[k].revoked
     /\ \A p \in Procs :
          ( /\ nreq' # nreq
            /\ api.req'[p] # api.req[p]
            /\ api.req'[p].kind = "validate"
            /\ api.req'[p].key \in api.revoked )
          => api.req'[p].pc = "done" /\ api.req'[p].status = 401]_vars


\* C37: in every reachable store state exists(c) is true exactly when
\* get(c) would return a record; hence a POST /shorten whose customCode is
\* refused as already in use names a code that get would resolve
C37_ExistsAgreesWithGet ==
  [][/\ \A c \in DOMAIN store' \cup {CodeAbc} :
          StorageExists(store', c) <=> (StorageGet(backend', store', c, now').value # None)
     /\ \A p \in Procs :
          (proc[p].pc = "sh_exists" /\ proc'[p].pc = "done" /\ proc'[p].existed)
          => StorageGet(backend, store, proc[p].code, now).value # None]_vars


\* C38: a rule that findMatchingRoute returns and that names a country
\* names the country of the request
C38_CountryRuleMatchesCountry ==
  (calc.fn = "findMatchingRoute" /\ calc.out.matchedRoute # None)
  => LET matchedRoute == calc.out.matchedRoute[1]
     IN  matchedRoute.country # <<>> => matchedRoute.country = calc.in[1].country


\* C39: when the total weight is positive, selectVariant returns a variant
\* of positive weight for every draw r with 0 <= r < total
C39_ZeroWeightNeverSelected ==
  (calc.fn = "selectVariant" /\ TotalWeight(calc.in[1]) > 0)
  => calc.out.weight > 0


\* C40: for one entry {url, customCode, expiresIn} on one store state,
\* handleBulkShorten stores a record exactly when handleShorten does, and
\* the two records have the same destination, code, customCode flag,
\* visitCount and expiry
C40_BulkAgreesWithSingle ==
  calc.fn = "create" => calc.out.bulk = calc.out.single

====
